---------------------------- MODULE Spec2Model ----------------------------
(***************************************************************************)
(* A model of the artifact packaging subsystem of pyterrier-alpha:         *)
(*   - pyterrier_alpha/io.py: finalized_open, finalized_directory,         *)
(*     the hashing reader and path_is_under_base;                          *)
(*   - pyterrier_alpha/artifact.py: Artifact._package_files,               *)
(*     Artifact.build_package and Artifact.from_url.                       *)
(*                                                                         *)
(* Abstractions.  A file of the artifact directory is a path (a sequence   *)
(* of names) with a size counted in chunks; chunk i of file p is the       *)
(* token [k |-> "data", path |-> p, i |-> i].  The tar stream is a         *)
(* sequence of tokens (directory record, file header, data chunks, end of  *)
(* archive).  The LZ4 frame is a sequence of blocks, each block the        *)
(* sequence of tar tokens it compresses; one block is handed to the        *)
(* underlying writer in one write call.  The size of a block in bytes is   *)
(* its number of tokens.  SHA-256 is collision free: the digest of a byte  *)
(* stream is the stream itself, written in lower-case hexadecimal.         *)
(***************************************************************************)
EXTENDS Integers, Sequences, FiniteSets, TLC

(***************************************************************************)
(* Bounds of the model.                                                    *)
(***************************************************************************)
\* the largest file size, in chunks, of a file of the artifact directory
MaxChunks == 2
\* the largest max_file_size (bytes of one segment) passed to build_package
MaxSegSize == 2
\* the number of write calls the body of a finalized_open scope may make
MaxWrites == 3
\* the number of tar tokens the compressor buffers before it emits a block
LzBlock == 2
\* the most members of an archive handed to the extraction loop
MaxMembers == 2
MaxSubs == 3
MaxSubLen == 3
MaxReadSize == 3
MaxPast == 2

\* the size, in chunks, of the pt_meta.json synthesized in memory
SynthSize == 1

(***************************************************************************)
(* Names, paths and artifact directories.                                  *)
(***************************************************************************)
PT_META == "pt_meta.json"

\* Python's str order (code point order) on the names used in the model
NameRank ==
    [n \in {"a", "b", "c", PT_META, "x", "y", "z"} |->
        CASE n = "a" -> 1 [] n = "b" -> 2 [] n = "c" -> 3 [] n = PT_META -> 4
          [] n = "x" -> 5 [] n = "y" -> 6 [] n = "z" -> 7]

\* the names of the sub-directories an artifact directory of the model may have
DirNames == {"a", "b"}

\* the files an artifact directory of the model may hold (relative paths)
CandidateFiles ==
    { <<PT_META>>, <<"z">>, <<"a", "x">>, <<"a", PT_META>>, <<"b", "y">> }

\* the orders in which the file system may list the sub-directories
Listings ==
    { l \in [DirNames -> 1..Cardinality(DirNames)] :
        \A d, e \in DirNames : d # e => l[d] # l[e] }

\* the artifact directories: each file present has a size in chunks
Trees ==
    UNION { [fs -> 0..MaxChunks] : fs \in SUBSET CandidateFiles }

Prefix(p, n) == SubSeq(p, 1, n)

\* the files directly inside directory `root` of tree t
FilesIn(t, root) ==
    { p \in DOMAIN t : Len(p) = Len(root) + 1 /\ Prefix(p, Len(root)) = root }

\* the names of the sub-directories directly inside directory `root` of tree t
DirsIn(t, root) ==
    { p[Len(root) + 1] : p \in { q \in DOMAIN t :
        Len(q) > Len(root) + 1 /\ Prefix(q, Len(root)) = root } }

\* a finite set as the sequence ordered by increasing rank[x]
RECURSIVE SortBy(_, _)
SortBy(S, rank) ==
    IF S = {} THEN << >>
    ELSE LET m == CHOOSE x \in S : \A y \in S : rank[x] <= rank[y]
         IN  << m >> \o SortBy(S \ {m}, rank)

\* sorted(files): the files of one directory ordered by file name
SortedFiles(S) ==
    SortBy(S, [p \in S |-> NameRank[p[Len(p)]]])

\* the order in which os.walk visits the sub-directories: the listing order
WalkDirOrder(ds, listing) ==
    SortBy(ds, listing)

\* an entry yielded by _package_files: an on-disk file, or the in-memory one
DiskEntry(p) == [path |-> p, synth |-> FALSE]
SynthEntry == [path |-> << PT_META >>, synth |-> TRUE]

\* the on-disk entries of a sequence of file paths
DiskEntries(ps) == [i \in 1..Len(ps) |-> DiskEntry(ps[i])]

\* os.walk(self.path), top-down, with the loop over sorted(files) in each
\* directory: the on-disk entries in the order they are yielded
RECURSIVE Walk(_, _, _), WalkDirs(_, _, _, _)
Walk(t, listing, root) ==
    DiskEntries(SortedFiles(FilesIn(t, root)))
      \o WalkDirs(t, listing, root, WalkDirOrder(DirsIn(t, root), listing))
WalkDirs(t, listing, root, ds) ==
    IF ds = << >> THEN << >>
    ELSE Walk(t, listing, Append(root, Head(ds)))
           \o WalkDirs(t, listing, root, Tail(ds))

\* has_pt_meta_file after the walk: a yielded relative path was 'pt_meta.json'
HasPtMetaFile_ByName(es) ==
    \E i \in 1..Len(es) : es[i].path[Len(es[i].path)] = PT_META
HasPtMetaFile(es) ==
    \E i \in 1..Len(es) : es[i].path = << PT_META >>

\* _build_metadata: the base class always returns a dictionary (it holds
\* package_hint, and type/format when they can be inferred), never None
BuildMetadata == [package_hint |-> "pyterrier_alpha"]
MetadataIsNone(m) == FALSE

\* _package_files: the walk, then the synthesized pt_meta.json when no
\* root-level pt_meta.json was yielded
PackageFiles(t, listing) ==
    LET es == Walk(t, listing, << >>)
    IN  IF ~HasPtMetaFile(es) /\ ~MetadataIsNone(BuildMetadata)
        THEN Append(es, SynthEntry)
        ELSE es

(***************************************************************************)
(* The file system.  A file name is a record: the package path (k = "pkg"),*)
(* a segment path <package>.i (k = "seg"), the manifest <package>.json     *)
(* (k = "json"), the cache directory (k = "cache") and its provenance      *)
(* sidecar (k = "side"); tmp marks the temporary sibling that mkstemp or   *)
(* mkdtemp creates for it.  The file system maps the names that exist to   *)
(* their content; the content of a regular file is the sequence of the     *)
(* data written to it.                                                     *)
(***************************************************************************)
FileName(kind, idx) == [k |-> kind, i |-> idx, tmp |-> FALSE]
Pkg == FileName("pkg", 0)
Seg(n) == FileName("seg", n)
Manifest == FileName("json", 0)
CacheDir == FileName("cache", 0)
Sidecar == FileName("side", 0)
\* what lies outside the cache directory and its temporary, when anything was
\* created there: absolute path -> entry
Outside == FileName("outside", 0)

\* the temporary sibling of a path: '.<basename>.tmp.<random>' in its directory
TmpOf(n) == [n EXCEPT !.tmp = TRUE]

Exists(f, n) == n \in DOMAIN f

\* the file system f with name n holding content c
Put(f, n, c) == [m \in (DOMAIN f) \cup {n} |-> IF m = n THEN c ELSE f[m]]

\* the file system f without name n
Remove(f, n) == [m \in (DOMAIN f) \ {n} |-> f[m]]

\* os.replace(src, dst)
Replace(f, src, dst) == Remove(Put(f, dst, f[src]), src)

(***************************************************************************)
(* finalized_open (io.py): the steps of the scope.                         *)
(***************************************************************************)
\* tempfile.mkstemp(prefix, dir) and open_fn(path_tmp, 'w' + mode)
FOEnter(f, target) == Put(f, TmpOf(target), << >>)

\* a write of the body through the handle the scope yielded
FOWrite(f, target, data) ==
    Put(f, TmpOf(target), f[TmpOf(target)] \o data)

\* the body raised: the handle is closed, os.remove(path_tmp), re-raise
FOExitExc_KeepTmp(f, target) == f
FOExitExc(f, target) == Remove(f, TmpOf(target))

\* the body returned: close, os.chmod(path_tmp, 0o666), os.replace(path_tmp, path)
FOExitOk(f, target) == Replace(f, TmpOf(target), target)

(***************************************************************************)
(* finalized_directory (io.py).  The content of a directory is the map     *)
(* from the relative paths created in it to what they hold.                *)
(***************************************************************************)
EmptyDir == [q \in {} |-> [type |-> "dir", content |-> << >>]]

\* tempfile.mkdtemp(prefix, dir)
FDEnter(f, target) == Put(f, TmpOf(target), EmptyDir)

\* the body raised: shutil.rmtree(path_tmp), re-raise
FDExitExc_Keep(f, target) == f
FDExitExc(f, target) == Remove(f, TmpOf(target))

\* the body returned: os.chmod(path_tmp, 0o777), os.replace(path_tmp, path)
FDExitOk(f, target) == Replace(f, TmpOf(target), target)

(***************************************************************************)
(* The tar stream and the LZ4 frames.                                      *)
(***************************************************************************)
DirTok(d) == [k |-> "dir", path |-> d, i |-> 0, mem |-> FALSE]
HdrTok(p, size) == [k |-> "hdr", path |-> p, i |-> size, mem |-> FALSE]
DataTok(p, n, m) == [k |-> "data", path |-> p, i |-> n, mem |-> m]
EndTok == [k |-> "end", path |-> << >>, i |-> 0, mem |-> FALSE]
LzHdr == [k |-> "lz4hdr", path |-> << >>, i |-> 0, mem |-> FALSE]
LzEnd == [k |-> "lz4end", path |-> << >>, i |-> 0, mem |-> FALSE]

\* the compressor before its first write
LzNew == [started |-> FALSE, buf |-> << >>]

\* LZ4FrameFile.write: the first write of a frame emits the frame header; the
\* data is buffered and emitted as a block when the buffer is full.  The
\* result is the compressor afterwards and the bytes handed to the writer.
LzWrite(z, tok) ==
    LET hdr == IF z.started THEN << >> ELSE << LzHdr >>
        b == Append(z.buf, tok)
    IN  IF Len(b) >= LzBlock
        THEN [lz |-> [started |-> TRUE, buf |-> << >>], out |-> hdr \o b]
        ELSE [lz |-> [started |-> TRUE, buf |-> b], out |-> hdr]

\* LZ4FrameFile.flush: emits what is buffered and ends the frame; nothing
\* when no frame has been started
LzFlush(z) ==
    IF z.started
    THEN [lz |-> LzNew, out |-> z.buf \o << LzEnd >>]
    ELSE [lz |-> z, out |-> << >>]

\* the SHA-256 of a byte stream, as hexdigest() gives it (lower case)
HexDigest(bytes) == [hex |-> bytes, upper |-> FALSE]

\* str.lower() of a digest string
Lower_Identity(h) == h
Lower(h) == [h EXCEPT !.upper = FALSE]

\* the decoding of the LZ4 frames of a byte stream: [ok, toks], ok FALSE when
\* the stream is no sequence of complete frames
RECURSIVE DecompressFrom(_, _, _)
DecompressFrom(bytes, inframe, acc) ==
    IF bytes = << >> THEN [ok |-> ~inframe, toks |-> acc]
    ELSE LET t == Head(bytes)
         IN  IF ~inframe
             THEN IF t = LzHdr THEN DecompressFrom(Tail(bytes), TRUE, acc)
                  ELSE [ok |-> FALSE, toks |-> acc]
             ELSE IF t = LzEnd THEN DecompressFrom(Tail(bytes), FALSE, acc)
             ELSE IF t = LzHdr THEN [ok |-> FALSE, toks |-> acc]
             ELSE DecompressFrom(Tail(bytes), TRUE, Append(acc, t))
Decompress(bytes) == DecompressFrom(bytes, FALSE, << >>)

\* the members of a tar stream read in mode 'r|': [ok, members], ok FALSE when
\* tarfile raises ReadError (empty stream, invalid header, truncated data)
RECURSIVE UntarFrom(_, _)
UntarFrom(toks, acc) ==
    IF toks = << >> THEN [ok |-> acc # << >>, members |-> acc]
    ELSE LET t == Head(toks)
             rest == Tail(toks)
         IN  IF t.k = "end" THEN [ok |-> TRUE, members |-> acc]
             ELSE IF t.k = "dir"
             THEN UntarFrom(rest, Append(acc,
                    [type |-> "dir", path |-> t.path, content |-> << >>]))
             ELSE IF t.k = "hdr" /\ t.i >= 0 /\ t.i <= Len(rest)
             THEN UntarFrom(SubSeq(rest, t.i + 1, Len(rest)), Append(acc,
                    [type |-> "file", path |-> t.path,
                     content |-> SubSeq(rest, 1, t.i)]))
             ELSE [ok |-> FALSE, members |-> acc]
Untar(toks) == UntarFrom(toks, << >>)

(***************************************************************************)
(* Paths on the reader's side.  A path is a sequence of components; the    *)
(* component "/" makes it absolute and ".." names the parent.              *)
(***************************************************************************)
\* the characters of a name (a name not listed is one character of its own)
NameChars(n) == IF n = "dd" THEN << "d", "d" >> ELSE << n >>

\* s.startswith(b) on names
NameStartsWith(s, b) ==
    LET cs == NameChars(s)
        cb == NameChars(b)
    IN  Len(cs) >= Len(cb) /\ SubSeq(cs, 1, Len(cb)) = cb

\* os.path.join(base, path): an absolute path replaces the base
PathJoin(base, path) ==
    IF path # << >> /\ path[1] = "/" THEN Tail(path) ELSE base \o path

\* os.path.realpath(os.path.abspath(p)) of an absolute path without links
RECURSIVE NormalizeFrom(_, _)
NormalizeFrom(p, acc) ==
    IF p = << >> THEN acc
    ELSE IF Head(p) = ".."
         THEN NormalizeFrom(Tail(p),
                IF acc = << >> THEN acc ELSE SubSeq(acc, 1, Len(acc) - 1))
         ELSE NormalizeFrom(Tail(p), Append(acc, Head(p)))
Normalize(p) == NormalizeFrom(p, << >>)

\* a.startswith(b) for the strings of two absolute paths a and b (b not the
\* root): the components before b's last one agree and the next component of
\* a starts with b's last one
StrStartsWith(a, b) ==
    /\ Len(a) >= Len(b)
    /\ Prefix(a, Len(b) - 1) = Prefix(b, Len(b) - 1)
    /\ NameStartsWith(a[Len(b)], b[Len(b)])

\* path a lies strictly under directory b
StrictlyUnder(a, b) ==
    Len(a) > Len(b) /\ Prefix(a, Len(b)) = b

\* path_is_under_base (io.py)
PathIsUnderBase(path, base) ==
    StrStartsWith(Normalize(PathJoin(base, path)), Normalize(base))

\* the temporary directory finalized_directory yields, and the directory
\* beside it whose name starts with the same characters
DestBase == << "cache", "d" >>

\* the test of the extraction loop of from_url
IsExtracted_Always(member, base) == TRUE
IsExtracted(member, base) ==
    member.type \in {"file", "dir"} /\ PathIsUnderBase(member.path, base)

\* tar_in.extract(member, dout, set_attrs=False): the file system below "/"
\* (absolute path -> content; a directory holds << >>) after the member is
\* created at its joined path
ExtractMember(disk, member, base) ==
    LET target == Normalize(PathJoin(base, member.path))
    IN  [q \in (DOMAIN disk) \cup {target} |->
            IF q = target THEN [type |-> member.type, content |-> member.content]
            ELSE disk[q]]

\* the loop `for member in tar_in` of from_url
RECURSIVE ExtractAll(_, _, _)
ExtractAll(disk, members, base) ==
    IF members = << >> THEN disk
    ELSE ExtractAll(IF IsExtracted(Head(members), base)
                    THEN ExtractMember(disk, Head(members), base)
                    ELSE disk,
                    Tail(members), base)

\* nothing created yet
EmptyDisk == [q \in {} |-> [type |-> "dir", content |-> << >>]]

(***************************************************************************)
(* State.                                                                  *)
(***************************************************************************)
VARIABLES
    tree,       \* the artifact directory: file path -> size in chunks
    listing,    \* the order in which the file system lists sub-directories
    fs,         \* the file system: the names that exist -> content
    w_listing2, \* the listing order met by a second run of _package_files
    w_ran,      \* the runs of _package_files that have been made: 1, 2
    w_out,      \* the entries yielded by run 1 and by run 2
    fo_pc,      \* a finalized_open scope: "start", "body", "done", "raised"
    fo_prior,   \* what the target held when the scope was entered
    fo_written, \* the data the body has written so far
    max_file_size,      \* build_package's max_file_size; 0 stands for None
    metadata_out,       \* whether the caller passed a metadata_out dictionary
    pkg_lz4,            \* whether package_path ends with '.lz4'
    b_pc,               \* build_package: where the call is
    b_todo,             \* the entries _package_files has still to yield
    b_left,             \* the chunks of the current entry still to be read
    added_dirs,         \* added_dirs
    lz,                 \* the state of lz4_fout
    chunk_num,          \* chunk_num
    chunk_start_offset, \* chunk_start_offset
    metadata,           \* the manifest being built
    hash,               \* the bytes sha256_fout has hashed
    stack,              \* the finalized_open scopes the ExitStack holds
    b_raised,           \* why build_package raised: "", "io", "metadata_out", "commit"
    env,        \* what happened to the package files after the build
    f_pc,       \* from_url: where the call is
    f_expected, \* the caller's expected_sha256: << >> for None, << h >>
    f_eff,      \* expected_sha256 once the manifest has been looked at
    f_info,     \* download_info: << >> for {}, << m >> for the manifest m
    f_hit,      \* whether the cache path existed when the call looked
    f_io,       \* the streams and temporaries the current call has opened
    f_prev_ok,  \* whether an earlier from_url call has returned
    f_read,     \* the bytes read from the package stream so far
    f_seg,      \* the number of segment streams the MultiReader has consumed
    f_raised,   \* the exception from_url raised, "" when none
    f_cause,    \* the failure that began the unwinding, "" when none
    x_members,  \* the members the extraction loop has still to visit
    x_disk,     \* what the extraction loop has created: absolute path -> entry
    mr_subs,    \* MultiReader: the contents of the sub-streams, in order
    mr_cur,     \* the index of the sub-stream self.reader; 0 when it is None
    mr_pos,     \* the bytes of the current sub-stream consumed so far
    mr_got,     \* the chunks returned up to the first empty one, concatenated
    mr_eof,     \* whether an empty chunk has been returned
    mr_last,    \* the chunk the last call returned
    mr_after,   \* the calls made after the final sub-stream was exhausted
    mr_raised,  \* the exception a call raised, "" when none
    mr_log,     \* the sub-streams opened and closed so far, in order
    hr_data,    \* HashReader: the content of the wrapped stream
    hr_pos,     \* the bytes of the wrapped stream consumed so far
    hr_hashed,  \* the bytes self.hash has been updated with
    hr_expected,\* self.expected: << >> for None, << h >>
    hr_pc,      \* "open", "closed" (close returned), "raised" (close raised)
    hr_inner,   \* whether the wrapped stream is closed
    sc_kind,    \* a scope of finalized_open ("file") or finalized_directory ("dir")
    sc_pc,      \* "start", "body", "done", "raised"
    sc_prior,   \* what the target held when the scope was entered
    sc_written, \* what the body has put in the temporary so far
    sc_cause,   \* the step that failed: "", "create", "body", "chmod", "rename"
    sc_exc,     \* the exception that reaches the caller, "" when none
    ld_path,    \* load: what lies at the path, with pt_meta.json if it has one
    ld_adapters,\* what each registered metadata adapter returns, in order
    ld_registry,\* the names of the 'pyterrier.artifact' entry points, in order
    ld_pc,      \* "idle", "start", "done"
    ld_out,     \* what load returned or raised
    ld_calls,   \* the metadata adapters called, each with its arguments
    rs_table, \* from_url: the registered protocol resolvers, protocol -> behaviour
    rs_left, \* protocol_entry_points: the protocols still in the dict
    rs_url, \* the url being resolved
    rs_pc, \* "idle", "start", "loop", "resolved", "raised"
    rs_calls, \* how many times each resolver has been invoked
    rs_iter, \* the iterations of the resolution loop made
    rs_repo, \* from_hf: the repo argument, << >> when from_url was called
    rs_branch, \* from_hf: the branch argument, << >> for None
    rf_results, \* rr_fusion: the result frames, qid -> docnos by descending score
    rf_num, \* num_results: << >> for None, << n >>
    rf_pc, \* "idle", "start", "done"
    rf_out, \* what rr_fusion returned or raised
    bq_fn, \* by_query: the name of the decorated function, "" when none
    bq_verbose, \* the variable verbose of the closure: "None", "True", "False"
    bq_supports, \* apply_iter_supports_verbose
    bq_unspecified, \* whether the decorator was given no verbose argument
    bq_calls, \* the calls made: the verbose attribute of the instance, the verbose passed on
    tr_attrs, \* transformer_repr: the attributes of the transformer, in declaration order
    tr_pc, \* "idle", "start", "done"
    tr_out, \* the arguments rendered between the parentheses
    ny_kind, \* the observing stream: "hash", "tqdm", "callback" reader, "writer"
    ny_data, \* the content of the stream the reader wraps
    ny_pos, \* the bytes of the wrapped stream consumed so far
    ny_calls, \* the calls of read and read1 made so far, each with its result
    ny_seen, \* the chunks on_data was called with, in order
    ny_hash, \* the bytes self.hash has been updated with
    ny_total, \* the count of the progress bar
    ny_writers, \* HashWriter: what each underlying writer has received
    ny_ok, \* the chunks whose write returned, in order
    bm_class, \* the class of the artifact: its constants, its module
    bm_registry, \* the entry points of pyterrier.artifact, in order
    bm_has_meta, \* whether the walk yielded a root-level pt_meta.json
    bm_pc, \* "idle", "start", "done"
    bm_out, \* the synthesized pt_meta.json: << >> when none, << dict >>
    ab_mode, \* ArtifactBuilder: "create", "overwrite" or "append"
    ab_prior, \* what was at the path and whether its parent existed, before
    ab_parent, \* whether the parent directory of the path exists
    ab_dir, \* the path: "missing", "file" or "dir"
    ab_files, \* the files the body has written into the directory
    ab_meta, \* pt_meta.json: "none", "partial" or "complete"
    ab_pc, \* "idle", "start", "body", "exit", "writing", "done", "raised"
    ab_exc, \* the exception that left the block, "" when none
    va_cols, \* validate.any: the columns of the input frame
    va_log, \* the calls of columns() made in the block, in order
    va_attempts, \* self.attempts
    va_errors, \* self.errors
    va_mode, \* self.mode: << >> for None, << name >>
    va_body, \* whether the body of the block raised
    va_pc, \* "idle", "body", "exit", "left"
    va_exc, \* the exception that leaves the block, "" when none
    cf_n, \* concurrent from_url calls: the number of members of the package
    cf_pc, \* the place of each call in from_url
    cf_tmp, \* the temporary directory of each call: << >> or << members >>
    cf_side_tmp, \* whether the temporary sidecar file of each call exists
    cf_cache, \* the cache path: << >> or << [owner, files] >>
    cf_sidecar, \* the sidecar at its final path: << >> or << owner >>
    cf_exc, \* the exception each call raised, "" when none
    cf_log \* what the cache path held before each rename onto it

walkvars == << w_listing2, w_ran, w_out >>
fovars == << fo_pc, fo_prior, fo_written >>
args == << max_file_size, metadata_out, pkg_lz4 >>
buildvars == << b_pc, b_todo, b_left, added_dirs, lz, chunk_num,
                chunk_start_offset, metadata, hash, stack, b_raised >>
fetchvars == << env, f_pc, f_expected, f_eff, f_info, f_hit, f_io, f_prev_ok,
                f_read, f_seg, f_raised, f_cause >>
xvars == << x_members, x_disk >>
mainvars == << args, buildvars, fetchvars, xvars >>
mrvars == << mr_subs, mr_cur, mr_pos, mr_got, mr_eof, mr_last, mr_after,
             mr_raised, mr_log >>
hrvars == << hr_data, hr_pos, hr_hashed, hr_expected, hr_pc, hr_inner >>
scvars == << sc_kind, sc_pc, sc_prior, sc_written, sc_cause, sc_exc >>
ldvars == << ld_path, ld_adapters, ld_registry, ld_pc, ld_out, ld_calls >>
rsvars == << rs_table, rs_left, rs_url, rs_pc, rs_calls, rs_iter, rs_repo, rs_branch >>
rfvars == << rf_results, rf_num, rf_pc, rf_out >>
bqvars == << bq_fn, bq_verbose, bq_supports, bq_unspecified, bq_calls >>
trvars == << tr_attrs, tr_pc, tr_out >>
nyvars == << ny_kind, ny_data, ny_pos, ny_calls, ny_seen, ny_hash, ny_total, ny_writers, ny_ok >>
bmvars == << bm_class, bm_registry, bm_has_meta, bm_pc, bm_out >>
abvars == << ab_mode, ab_prior, ab_parent, ab_dir, ab_files, ab_meta, ab_pc, ab_exc >>
vavars == << va_cols, va_log, va_attempts, va_errors, va_mode, va_body, va_pc, va_exc >>
cfvars == << cf_n, cf_pc, cf_tmp, cf_side_tmp, cf_cache, cf_sidecar, cf_exc, cf_log >>
iovars == << mrvars, hrvars, scvars, ldvars, rsvars, rfvars, bqvars, trvars, nyvars, bmvars, abvars, vavars, cfvars >>
artifactvars == << tree, listing, fs, walkvars, fovars, mainvars >>
\* everything but the MultiReader, everything but the HashReader
mrothers == << artifactvars, hrvars, scvars, ldvars, rsvars, rfvars, bqvars, trvars, nyvars, bmvars, abvars, vavars, cfvars >>
hrothers == << artifactvars, mrvars, scvars, ldvars, rsvars, rfvars, bqvars, trvars, nyvars, bmvars, abvars, vavars, cfvars >>
\* everything a scope of finalized_open or finalized_directory leaves alone
scothers == << tree, listing, walkvars, fovars, mainvars, mrvars, hrvars, ldvars, rsvars, rfvars, bqvars, trvars, nyvars, bmvars, abvars, vavars, cfvars >>
\* everything but a call of load
ldothers == << artifactvars, mrvars, hrvars, scvars, rsvars, rfvars, bqvars, trvars, nyvars, bmvars, abvars, vavars, cfvars >>
\* everything but the protocol resolution of from_url
rsothers == << artifactvars, mrvars, hrvars, scvars, ldvars, rfvars, bqvars, trvars, nyvars, bmvars, abvars, vavars, cfvars >>
\* everything but a call of rr_fusion
rfothers == << artifactvars, mrvars, hrvars, scvars, ldvars, rsvars, bqvars, trvars, nyvars, bmvars, abvars, vavars, cfvars >>
\* everything but a function decorated with by_query
bqothers == << artifactvars, mrvars, hrvars, scvars, ldvars, rsvars, rfvars, trvars, nyvars, bmvars, abvars, vavars, cfvars >>
\* everything but a call of transformer_repr
trothers == << artifactvars, mrvars, hrvars, scvars, ldvars, rsvars, rfvars, bqvars, nyvars, bmvars, abvars, vavars, cfvars >>
\* what the observing streams leave alone
nyothers == << artifactvars, mrvars, hrvars, scvars, ldvars, rsvars, rfvars, bqvars, trvars, bmvars, abvars, vavars, cfvars >>
\* what the synthesis of the metadata leaves alone
bmothers == << artifactvars, mrvars, hrvars, scvars, ldvars, rsvars, rfvars, bqvars, trvars, nyvars, abvars, vavars, cfvars >>
\* what the ArtifactBuilder leaves alone
abothers == << artifactvars, mrvars, hrvars, scvars, ldvars, rsvars, rfvars, bqvars, trvars, nyvars, bmvars, vavars, cfvars >>
\* what the validation context leaves alone
vaothers == << artifactvars, mrvars, hrvars, scvars, ldvars, rsvars, rfvars, bqvars, trvars, nyvars, bmvars, abvars, cfvars >>
\* what the concurrent calls of from_url leave alone
cfothers == << artifactvars, mrvars, hrvars, scvars, ldvars, rsvars, rfvars, bqvars, trvars, nyvars, bmvars, abvars, vavars >>
vars == << artifactvars, iovars >>

\* the empty file system
NoFiles == [n \in {} |-> << >>]

\* an artifact directory and a listing order for the specifications that are
\* not about them
TreeIdle ==
    /\ tree = [p \in {} |-> 0]
    /\ listing = CHOOSE l \in Listings : TRUE

(***************************************************************************)
(* Two runs of _package_files over the same artifact directory.            *)
(***************************************************************************)
WalkIdle ==
    /\ w_listing2 = listing
    /\ w_ran = {}
    /\ w_out = << << >>, << >> >>

FOIdle ==
    /\ fo_pc = "idle"
    /\ fo_prior = << >>
    /\ fo_written = << >>

\* the manifest as build_package initializes it; expected_sha256 is << >> for
\* None and << h >> for the digest h; segments is << >> while the key is absent
NewMetadata ==
    [expected_sha256 |-> << >>, total_size |-> 0, contents |-> << >>,
     segments |-> << >>]

BuildIdle ==
    /\ b_pc = "idle"
    /\ b_todo = << >>
    /\ b_left = 0
    /\ added_dirs = {}
    /\ lz = LzNew
    /\ chunk_num = 0
    /\ chunk_start_offset = 0
    /\ metadata = NewMetadata
    /\ hash = << >>
    /\ stack = << >>
    /\ b_raised = ""

ArgsIdle ==
    /\ max_file_size = 0
    /\ metadata_out = FALSE
    /\ pkg_lz4 = TRUE

FetchIdle ==
    /\ env = "asbuilt"
    /\ f_pc = "idle"
    /\ f_expected = << >>
    /\ f_eff = << >>
    /\ f_info = << >>
    /\ f_hit = FALSE
    /\ f_io = {}
    /\ f_prev_ok = FALSE
    /\ f_read = << >>
    /\ f_seg = 0
    /\ f_raised = ""
    /\ f_cause = ""

ExtractIdle ==
    /\ x_members = << >>
    /\ x_disk = EmptyDisk

MainIdle == ArgsIdle /\ BuildIdle /\ FetchIdle /\ ExtractIdle

ArtifactIdle == fs = NoFiles /\ TreeIdle /\ WalkIdle /\ FOIdle /\ MainIdle

MRIdle ==
    /\ mr_subs = << >>
    /\ mr_cur = 0
    /\ mr_pos = 0
    /\ mr_got = << >>
    /\ mr_eof = FALSE
    /\ mr_last = << >>
    /\ mr_after = 0
    /\ mr_raised = ""
    /\ mr_log = << >>

HRIdle ==
    /\ hr_data = << >>
    /\ hr_pos = 0
    /\ hr_hashed = << >>
    /\ hr_expected = << >>
    /\ hr_pc = "idle"
    /\ hr_inner = FALSE

SCIdle ==
    /\ sc_kind = "file"
    /\ sc_pc = "idle"
    /\ sc_prior = << >>
    /\ sc_written = << >>
    /\ sc_cause = ""
    /\ sc_exc = ""

\* no metadata: the empty dict
NoMetadata == [k \in {} |-> ""]

LDIdle ==
    /\ ld_path = [kind |-> "missing", meta |-> << >>]
    /\ ld_adapters = << >>
    /\ ld_registry = << >>
    /\ ld_pc = "idle"
    /\ ld_out = [kind |-> "none"]
    /\ ld_calls = << >>

RSIdle ==
    /\ rs_table = NoMetadata
    /\ rs_left = {}
    /\ rs_url = [scheme |-> "", path |-> << >>]
    /\ rs_pc = "idle"
    /\ rs_calls = NoMetadata
    /\ rs_iter = 0
    /\ rs_repo = << >>
    /\ rs_branch = << >>

RFIdle ==
    /\ rf_results = << >>
    /\ rf_num = << >>
    /\ rf_pc = "idle"
    /\ rf_out = [kind |-> "none"]

BQIdle ==
    /\ bq_fn = ""
    /\ bq_verbose = "None"
    /\ bq_supports = FALSE
    /\ bq_unspecified = FALSE
    /\ bq_calls = << >>

TRIdle ==
    /\ tr_attrs = << >>
    /\ tr_pc = "idle"
    /\ tr_out = << >>

NYIdle ==
    /\ ny_kind = "idle"
    /\ ny_data = << >>
    /\ ny_pos = 0
    /\ ny_calls = << >>
    /\ ny_seen = << >>
    /\ ny_hash = << >>
    /\ ny_total = 0
    /\ ny_writers = << >>
    /\ ny_ok = << >>

BMIdle ==
    /\ bm_class = [consts |-> << >>, hint |-> << >>, module |-> ""]
    /\ bm_registry = << >>
    /\ bm_has_meta = FALSE
    /\ bm_pc = "idle"
    /\ bm_out = << >>

ABIdle ==
    /\ ab_mode = "create"
    /\ ab_prior = [dir |-> "missing", parent |-> FALSE]
    /\ ab_parent = FALSE
    /\ ab_dir = "missing"
    /\ ab_files = {}
    /\ ab_meta = "none"
    /\ ab_pc = "idle"
    /\ ab_exc = ""

VAIdle ==
    /\ va_cols = {}
    /\ va_log = << >>
    /\ va_attempts = 0
    /\ va_errors = << >>
    /\ va_mode = << >>
    /\ va_body = FALSE
    /\ va_pc = "idle"
    /\ va_exc = ""

CFIdle ==
    /\ cf_n = 0
    /\ cf_pc = << >>
    /\ cf_tmp = << >>
    /\ cf_side_tmp = << >>
    /\ cf_cache = << >>
    /\ cf_sidecar = << >>
    /\ cf_exc = << >>
    /\ cf_log = << >>

IOIdle == MRIdle /\ HRIdle /\ SCIdle /\ LDIdle /\ RSIdle /\ RFIdle /\ BQIdle /\ TRIdle /\ NYIdle /\ BMIdle /\ ABIdle /\ VAIdle /\ CFIdle

WalkInit ==
    /\ IOIdle
    /\ tree \in Trees
    /\ listing \in Listings
    /\ w_listing2 \in Listings
    /\ w_ran = {}
    /\ w_out = << << >>, << >> >>
    /\ fs = NoFiles
    /\ FOIdle
    /\ MainIdle

WalkRun1 ==
    /\ 1 \notin w_ran
    /\ w_ran' = w_ran \cup {1}
    /\ w_out' = [w_out EXCEPT ![1] = PackageFiles(tree, listing)]
    /\ UNCHANGED << iovars, tree, listing, fs, w_listing2, fovars, mainvars >>

WalkRun2 ==
    /\ 2 \notin w_ran
    /\ w_ran' = w_ran \cup {2}
    /\ w_out' = [w_out EXCEPT ![2] = PackageFiles(tree, w_listing2)]
    /\ UNCHANGED << iovars, tree, listing, fs, w_listing2, fovars, mainvars >>

WalkNext == WalkRun1 \/ WalkRun2

SpecWalk == WalkInit /\ [][WalkNext]_vars

\* the `contents` paths build_package records for a stream of entries: one
\* record per entry, in the order the entries are yielded
ContentsPaths(es) == [i \in 1..Len(es) |-> es[i].path]

\* C9: for a fixed input tree, two runs produce the same `contents` sequence
\* (same paths in the same order), whatever order the file system lists the
\* directory entries in.
C9_SameContentsEveryRun ==
    w_ran = {1, 2} => ContentsPaths(w_out[1]) = ContentsPaths(w_out[2])

MetaEntries(es) == { i \in 1..Len(es) : es[i].path = << PT_META >> }
SynthEntries(es) == { i \in 1..Len(es) : es[i].synth }

\* C10: the entry stream holds exactly one entry with path pt_meta.json; with a
\* root-level pt_meta.json in the tree that file is packaged as it is and
\* nothing is synthesized; otherwise exactly one in-memory pt_meta.json is
\* synthesized, and it comes after all on-disk files.
C10_MetadataSynthesis ==
    \A r \in w_ran :
        LET es == w_out[r]
            disk == { i \in 1..Len(es) : ~es[i].synth }
        IN  /\ Cardinality(MetaEntries(es)) = 1
            /\ { es[i].path : i \in disk } = DOMAIN tree
            /\ Cardinality(disk) = Cardinality(DOMAIN tree)
            /\ << PT_META >> \in DOMAIN tree => SynthEntries(es) = {}
            /\ << PT_META >> \notin DOMAIN tree =>
                 /\ SynthEntries(es) = { Len(es) }
                 /\ es[Len(es)] = SynthEntry

\* a tree with files (one of them a nested pt_meta.json) but no root-level
\* pt_meta.json has been enumerated and the synthesized entry came last
C10_Witness ==
    /\ 1 \in w_ran
    /\ << PT_META >> \notin DOMAIN tree
    /\ << "a", PT_META >> \in DOMAIN tree
    /\ Len(w_out[1]) = Cardinality(DOMAIN tree) + 1
    /\ w_out[1][Len(w_out[1])].synth

(***************************************************************************)
(* One finalized_open scope over a target that may already exist.          *)
(***************************************************************************)
FOTarget == Pkg

\* what a path holds: << >> when it does not exist, << content >> when it does
Holds(f, n) == IF Exists(f, n) THEN << f[n] >> ELSE << >>

FOInit ==
    /\ IOIdle
    /\ fs \in { NoFiles,
                Put(NoFiles, FOTarget, << "old" >>),
                Put(NoFiles, FOTarget, << "old", "older" >>) }
    /\ fo_pc = "start"
    /\ fo_prior = Holds(fs, FOTarget)
    /\ fo_written = << >>
    /\ TreeIdle
    /\ WalkIdle
    /\ MainIdle

\* entering the scope: mkstemp, open, yield
FOOpen ==
    /\ fo_pc = "start"
    /\ fs' = FOEnter(fs, FOTarget)
    /\ fo_pc' = "body"
    /\ UNCHANGED << iovars, tree, listing, walkvars, mainvars, fo_prior, fo_written >>

\* the body writes one piece of data
FOBodyWrite ==
    /\ fo_pc = "body"
    /\ Len(fo_written) < MaxWrites
    /\ \E d \in {"x", "y"} :
         /\ fs' = FOWrite(fs, FOTarget, << d >>)
         /\ fo_written' = Append(fo_written, d)
    /\ UNCHANGED << iovars, tree, listing, walkvars, mainvars, fo_pc, fo_prior >>

\* the body raises: the except clause removes the temporary file and re-raises
FOBodyRaise ==
    /\ fo_pc = "body"
    /\ fs' = FOExitExc(fs, FOTarget)
    /\ fo_pc' = "raised"
    /\ UNCHANGED << iovars, tree, listing, walkvars, mainvars, fo_prior, fo_written >>

\* the body returns: close, chmod, and the rename onto the target
FOBodyReturn ==
    /\ fo_pc = "body"
    /\ fs' = FOExitOk(fs, FOTarget)
    /\ fo_pc' = "done"
    /\ UNCHANGED << iovars, tree, listing, walkvars, mainvars, fo_prior, fo_written >>

FONext == FOOpen \/ FOBodyWrite \/ FOBodyRaise \/ FOBodyReturn

SpecFO == FOInit /\ [][FONext]_vars

\* C3: the target changes only at the rename of a successful exit: before it,
\* and after the body raised, the target holds what it held when the scope was
\* entered (or is absent, if it was), and once the body has raised the
\* temporary file is gone.
C3_AtomicFileWrite ==
    /\ fo_pc \in {"start", "body", "raised"} => Holds(fs, FOTarget) = fo_prior
    /\ fo_pc = "raised" => ~Exists(fs, TmpOf(FOTarget))
    /\ fo_pc = "done" =>
         /\ Holds(fs, FOTarget) = << fo_written >>
         /\ ~Exists(fs, TmpOf(FOTarget))

\* the body raised after writing, over a target that existed before
C3_Witness ==
    /\ fo_pc = "raised"
    /\ Len(fo_written) >= 2
    /\ fo_prior = << << "old" >> >>

(***************************************************************************)
(* build_package (artifact.py).                                            *)
(***************************************************************************)
\* the artifact directories that are packaged: a root-level pt_meta.json,
\* and one file in each of two sub-directories, each present or not
MainFiles == { << PT_META >>, << "a", "x" >>, << "b", "y" >> }
MainTrees == { t \in Trees : DOMAIN t \subseteq MainFiles }

\* the listing orders that matter for a tree: with fewer than two
\* sub-directories every order lists them alike
ListingsOf(t) ==
    IF Cardinality(DirsIn(t, << >>)) >= 2 THEN Listings
    ELSE { CHOOSE l \in Listings : TRUE }

\* raw_fout.tell(): the bytes written to the current segment file
Tell(f, n) == Len(f[TmpOf(Seg(n))])

\* the test of manage_maxsize
NeedsRotation_Given(mfs, tell) == mfs # 0
NeedsRotation(mfs, tell) == mfs # 0 /\ tell >= mfs

\* the `segments` list after a rotation that opens segment n at offset off
SegmentsAfterRotation_NoFirst(segs, n, off) ==
    segs \o << [idx |-> n, offset |-> off] >>
SegmentsAfterRotation(segs, n, off) ==
    (IF n = 1 THEN << [idx |-> 0, offset |-> 0] >> ELSE segs)
      \o << [idx |-> n, offset |-> off] >>

\* _NosyWriter.replace_writer: the writer is swapped, the running hash of the
\* HashWriter is the same object as before
HashAfterReplace_Reset(h) == << >>
HashAfterReplace(h) == h

\* the exceptional exit of the ExitStack: every finalized_open scope it holds
\* removes its temporary file, last entered first
UnwindAll_TopOnly(f, stk) ==
    IF stk = << >> THEN f ELSE FOExitExc(f, stk[Len(stk)])
RECURSIVE UnwindAll(_, _)
UnwindAll(f, stk) ==
    IF stk = << >> THEN f
    ELSE UnwindAll(FOExitExc(f, stk[Len(stk)]), SubSeq(stk, 1, Len(stk) - 1))

\* os.path.split(rel_path)[0]
PathDir(p) == Prefix(p, Len(p) - 1)

\* metadata_out.update(...) on the entry pt_meta.json raises when the caller
\* passed no dictionary (metadata_out is None)
UpdateRaises(e, mo) == e.path = << PT_META >> /\ ~mo

MainInit ==
    /\ IOIdle
    /\ tree \in MainTrees
    /\ listing \in ListingsOf(tree)
    /\ max_file_size \in 0..MaxSegSize
    /\ metadata_out \in BOOLEAN
    /\ pkg_lz4 \in BOOLEAN
    /\ fs = NoFiles
    /\ BuildIdle
    /\ FetchIdle
    /\ ExtractIdle
    /\ WalkIdle
    /\ FOIdle

\* build_package up to the loop: the metadata, the first segment file and the
\* writers stacked on it
BuildStart ==
    /\ b_pc = "idle"
    /\ b_pc' = "entry"
    /\ fs' = FOEnter(fs, Seg(0))
    /\ stack' = << Seg(0) >>
    /\ b_todo' = PackageFiles(tree, listing)
    /\ UNCHANGED << iovars, tree, listing, walkvars, fovars, fetchvars, xvars, args, b_left, added_dirs,
                    lz, chunk_num, chunk_start_offset, metadata, hash, b_raised >>

\* 'offset': chunk_start_offset + raw_fout.tell()
EntryOffset_InSegment(start, tell) == tell
EntryOffset(start, tell) == start + tell

\* the loop body up to the header of the entry: the directory record, the
\* flush, the record appended to `contents`, and the tar header
BuildEntry ==
    /\ b_pc = "entry"
    /\ b_todo # << >>
    /\ LET e == Head(b_todo)
           d == PathDir(e.path)
           need == d # << >> /\ d \notin added_dirs
           z1 == IF need THEN LzWrite(lz, DirTok(d)) ELSE [lz |-> lz, out |-> << >>]
           z2 == LzFlush(z1.lz)
           out12 == z1.out \o z2.out
           size == IF e.synth THEN SynthSize ELSE tree[e.path]
           rec == [path |-> e.path, size |-> size,
                   offset |-> EntryOffset(chunk_start_offset,
                                          Tell(fs, chunk_num) + Len(out12))]
           z3 == LzWrite(z2.lz, HdrTok(e.path, size))
           md == [metadata EXCEPT !.contents = Append(@, rec),
                                  !.total_size = @ + size]
       IN  /\ added_dirs' = IF need THEN added_dirs \cup {d} ELSE added_dirs
           /\ metadata' = md
           /\ IF e.synth /\ UpdateRaises(e, metadata_out)
              THEN \* metadata_out.update precedes addfile for the in-memory entry
                   /\ fs' = UnwindAll(FOWrite(fs, Seg(chunk_num), out12), stack)
                   /\ hash' = hash \o out12
                   /\ lz' = z2.lz
                   /\ b_pc' = "raised"
                   /\ b_raised' = "metadata_out"
                   /\ UNCHANGED b_left
              ELSE /\ fs' = FOWrite(fs, Seg(chunk_num), out12 \o z3.out)
                   /\ hash' = hash \o out12 \o z3.out
                   /\ lz' = z3.lz
                   /\ b_pc' = "chunks"
                   /\ b_left' = size
                   /\ UNCHANGED b_raised
    /\ UNCHANGED << iovars, tree, listing, walkvars, fovars, fetchvars, xvars, args, b_todo, chunk_num,
                    chunk_start_offset, stack >>

\* one chunk of the entry: the read, the callback manage_maxsize (which may
\* rotate the segment), and the write of the chunk to the archive
BuildChunk ==
    /\ b_pc = "chunks"
    /\ b_left > 0
    /\ LET e == Head(b_todo)
           size == IF e.synth THEN SynthSize ELSE tree[e.path]
           tell == Tell(fs, chunk_num)
           rot == NeedsRotation(max_file_size, tell)
           n1 == IF rot THEN chunk_num + 1 ELSE chunk_num
           off1 == IF rot THEN chunk_start_offset + tell ELSE chunk_start_offset
           fs1 == IF rot THEN FOEnter(fs, Seg(n1)) ELSE fs
           z == LzWrite(lz, DataTok(e.path, size - b_left + 1, e.synth))
       IN  /\ chunk_num' = n1
           /\ chunk_start_offset' = off1
           /\ metadata' = IF rot
                          THEN [metadata EXCEPT !.segments =
                                  SegmentsAfterRotation(@, n1, off1)]
                          ELSE metadata
           /\ stack' = IF rot THEN Append(stack, Seg(n1)) ELSE stack
           /\ fs' = FOWrite(fs1, Seg(n1), z.out)
           /\ hash' = (IF rot THEN HashAfterReplace(hash) ELSE hash) \o z.out
           /\ lz' = z.lz
           /\ b_left' = b_left - 1
    /\ UNCHANGED << iovars, tree, listing, walkvars, fovars, fetchvars, xvars, args, b_pc, b_todo,
                    added_dirs, b_raised >>

\* the end of the loop body: for an on-disk pt_meta.json, metadata_out.update
BuildEntryEnd ==
    /\ b_pc = "chunks"
    /\ b_left = 0
    /\ LET e == Head(b_todo)
       IN  IF ~e.synth /\ UpdateRaises(e, metadata_out)
           THEN /\ fs' = UnwindAll(fs, stack)
                /\ b_pc' = "raised"
                /\ b_raised' = "metadata_out"
                /\ UNCHANGED b_todo
           ELSE /\ b_todo' = Tail(b_todo)
                /\ b_pc' = "entry"
                /\ UNCHANGED << fs, b_raised >>
    /\ UNCHANGED << iovars, tree, listing, walkvars, fovars, fetchvars, xvars, args, b_left, added_dirs,
                    lz, chunk_num, chunk_start_offset, metadata, hash, stack >>

\* an I/O error while an entry is being written: the exception leaves the
\* with block through the ExitStack
BuildFault ==
    /\ b_pc \in {"entry", "chunks"}
    /\ b_todo # << >>
    /\ fs' = UnwindAll(fs, stack)
    /\ b_pc' = "raised"
    /\ b_raised' = "io"
    /\ UNCHANGED << iovars, tree, listing, walkvars, fovars, fetchvars, xvars, args, b_todo, b_left,
                    added_dirs, lz, chunk_num, chunk_start_offset, metadata,
                    hash, stack >>

\* after the loop: tarout.close(), lz4_fout.close(), the digest, and the
\* manifest written inside its own finalized_open scope
BuildFinish ==
    /\ b_pc = "entry"
    /\ b_todo = << >>
    /\ LET z1 == LzWrite(lz, EndTok)
           z2 == LzFlush(z1.lz)
           out == z1.out \o z2.out
           md == [metadata EXCEPT !.expected_sha256 = << HexDigest(hash \o out) >>]
       IN  /\ lz' = z2.lz
           /\ hash' = hash \o out
           /\ metadata' = md
           /\ fs' = FOWrite(FOEnter(FOWrite(fs, Seg(chunk_num), out), Manifest),
                            Manifest, << md >>)
           /\ stack' = Append(stack, Manifest)
    /\ b_pc' = "commit"
    /\ UNCHANGED << iovars, tree, listing, walkvars, fovars, fetchvars, xvars, args, b_todo, b_left,
                    added_dirs, chunk_num, chunk_start_offset, b_raised >>

\* the normal exit of the ExitStack: the scopes are left last entered first,
\* each renaming its temporary file onto its target
BuildCommit ==
    /\ b_pc = "commit"
    /\ stack # << >>
    /\ fs' = FOExitOk(fs, stack[Len(stack)])
    /\ stack' = SubSeq(stack, 1, Len(stack) - 1)
    /\ b_pc' = IF Len(stack) = 1 THEN "rename" ELSE "commit"
    /\ UNCHANGED << iovars, tree, listing, walkvars, fovars, fetchvars, xvars, args, b_todo, b_left,
                    added_dirs, lz, chunk_num, chunk_start_offset, metadata,
                    hash, b_raised >>

\* `if chunk_num == 0`: no chunking was done
NoChunkingDone_Always(n) == TRUE
NoChunkingDone(n) == n = 0

\* with no rotation the single segment takes the name asked for; the call
\* returns package_path
BuildRename ==
    /\ b_pc = "rename"
    /\ fs' = IF NoChunkingDone(chunk_num) THEN Replace(fs, Seg(0), Pkg) ELSE fs
    /\ b_pc' = "done"
    /\ UNCHANGED << iovars, tree, listing, walkvars, fovars, fetchvars, xvars, args, b_todo, b_left,
                    added_dirs, lz, chunk_num, chunk_start_offset, metadata,
                    hash, stack, b_raised >>

\* os.replace fails in the scope that is being left: its temporary file
\* stays (the call is after the try of _finalized_open_base), the targets
\* renamed before stay, and the scopes still held see the exception and
\* remove their temporary files
BuildCommitFault ==
    /\ b_pc = "commit"
    /\ stack # << >>
    /\ fs' = UnwindAll(fs, SubSeq(stack, 1, Len(stack) - 1))
    /\ b_pc' = "raised"
    /\ b_raised' = "commit"
    /\ UNCHANGED << iovars, tree, listing, walkvars, fovars, fetchvars, xvars, args, b_todo, b_left,
                    added_dirs, lz, chunk_num, chunk_start_offset, metadata,
                    hash, stack >>

\* os.rename of segment 0 to the package path fails, after the with block
BuildRenameFault ==
    /\ b_pc = "rename"
    /\ NoChunkingDone(chunk_num)
    /\ b_pc' = "raised"
    /\ b_raised' = "commit"
    /\ UNCHANGED << iovars, tree, listing, fs, walkvars, fovars, fetchvars, xvars, args, b_todo,
                    b_left, added_dirs, lz, chunk_num, chunk_start_offset,
                    metadata, hash, stack >>

BuildNext ==
    \/ BuildStart
    \/ BuildEntry
    \/ BuildChunk
    \/ BuildEntryEnd
    \/ BuildFault
    \/ BuildFinish
    \/ BuildCommit
    \/ BuildRename
    \/ BuildCommitFault
    \/ BuildRenameFault

(***************************************************************************)
(* What may happen to the package files between the build and the fetch.   *)
(***************************************************************************)
HasData(bytes) == \E j \in 1..Len(bytes) : bytes[j].k = "data"

\* one byte of the first data chunk flipped
FlipFirstData(bytes) ==
    LET j == CHOOSE m \in 1..Len(bytes) :
                 /\ bytes[m].k = "data"
                 /\ \A n \in 1..(m - 1) : bytes[n].k # "data"
    IN  [bytes EXCEPT ![j].i = 0 - @]

\* the files that hold the package bytes, in stream order
RECURSIVE SegmentNames(_, _)
SegmentNames(f, n) ==
    IF n < 0 THEN << >>
    ELSE SegmentNames(f, n - 1)
           \o (IF Exists(f, Seg(n)) THEN << Seg(n) >> ELSE << >>)

PackageFileNames(f) ==
    IF Exists(f, Pkg) THEN << Pkg >> ELSE SegmentNames(f, chunk_num)

RECURSIVE ConcatFiles(_, _)
ConcatFiles(f, names) ==
    IF names = << >> THEN << >>
    ELSE f[Head(names)] \o ConcatFiles(f, Tail(names))

\* the package byte stream as it lies on disk
PackageBytes(f) == ConcatFiles(f, PackageFileNames(f))

\* a byte of the package is flipped after the build
EnvTamper ==
    /\ b_pc = "done"
    /\ f_pc = "idle"
    /\ env = "asbuilt"
    /\ \E j \in 1..Len(PackageFileNames(fs)) :
         LET n == PackageFileNames(fs)[j]
         IN  /\ HasData(fs[n])
             /\ \A m \in 1..(j - 1) : ~HasData(fs[PackageFileNames(fs)[m]])
             /\ fs' = Put(fs, n, FlipFirstData(fs[n]))
    /\ env' = "tampered"
    /\ UNCHANGED << iovars, tree, listing, walkvars, fovars, args, buildvars, xvars,
                    f_pc, f_expected, f_eff, f_info, f_hit, f_io, f_prev_ok,
                    f_read, f_seg, f_raised, f_cause >>

\* the package is published without its manifest
EnvDropManifest ==
    /\ b_pc = "done"
    /\ f_pc = "idle"
    /\ env = "asbuilt"
    /\ fs' = Remove(fs, Manifest)
    /\ env' = "nomanifest"
    /\ UNCHANGED << iovars, tree, listing, walkvars, fovars, args, buildvars, xvars,
                    f_pc, f_expected, f_eff, f_info, f_hit, f_io, f_prev_ok,
                    f_read, f_seg, f_raised, f_cause >>

\* the manifest is there but reading it fails with an I/O error
EnvManifestUnreadable ==
    /\ b_pc = "done"
    /\ f_pc = "idle"
    /\ env = "asbuilt"
    /\ env' = "unreadable"
    /\ UNCHANGED << iovars, tree, listing, fs, walkvars, fovars, args, buildvars, xvars,
                    f_pc, f_expected, f_eff, f_info, f_hit, f_io, f_prev_ok,
                    f_read, f_seg, f_raised, f_cause >>

\* the manifest is replaced by a file that is no JSON document (an empty one)
EnvCorruptManifest ==
    /\ b_pc = "done"
    /\ f_pc = "idle"
    /\ env = "asbuilt"
    /\ fs' = Put(fs, Manifest, << >>)
    /\ env' = "corrupt"
    /\ UNCHANGED << iovars, tree, listing, walkvars, fovars, args, buildvars, xvars,
                    f_pc, f_expected, f_eff, f_info, f_hit, f_io, f_prev_ok,
                    f_read, f_seg, f_raised, f_cause >>

\* one of the package files is not there when the package is fetched
EnvDropFile ==
    /\ b_pc = "done"
    /\ f_pc = "idle"
    /\ env = "asbuilt"
    /\ \E j \in 1..Len(PackageFileNames(fs)) :
         fs' = Remove(fs, PackageFileNames(fs)[j])
    /\ env' = "missing"
    /\ UNCHANGED << iovars, tree, listing, walkvars, fovars, args, buildvars, xvars,
                    f_pc, f_expected, f_eff, f_info, f_hit, f_io, f_prev_ok,
                    f_read, f_seg, f_raised, f_cause >>

\* the tar stream of a sequence of members
RECURSIVE TarOf(_)
TarOf(members) ==
    IF members = << >> THEN << EndTok >>
    ELSE LET m == Head(members)
         IN  (IF m.type = "dir" THEN << DirTok(m.path) >>
              ELSE << HdrTok(m.path, Len(m.content)) >> \o m.content)
               \o TarOf(Tail(members))

\* the bytes of a package with these members, for the package path at hand
Pack(members, lz4) ==
    IF lz4 THEN << LzHdr >> \o TarOf(members) \o << LzEnd >>
    ELSE TarOf(members)

FileMember(p) == [type |-> "file", path |-> p, content |-> << >>]

\* archives whose members name paths outside the destination directory
HostileArchives ==
    { << FileMember(<< "..", "f" >>), FileMember(<< "ok" >>) >>,
      << FileMember(<< "ok" >>), FileMember(<< "..", "..", "etc", "passwd" >>) >>,
      << FileMember(<< "/", "etc", "passwd" >>),
         FileMember(<< "..", "dd", "f" >>), FileMember(<< "a", "ok" >>) >> }

\* the package is one that somebody made by hand, published without manifest
EnvHostile ==
    /\ b_pc = "done"
    /\ f_pc = "idle"
    /\ env = "asbuilt"
    /\ Exists(fs, Pkg)
    /\ \E a \in HostileArchives :
         fs' = Put(Remove(fs, Manifest), Pkg, Pack(a, pkg_lz4))
    /\ env' = "hostile"
    /\ UNCHANGED << iovars, tree, listing, walkvars, fovars, args, buildvars, xvars,
                    f_pc, f_expected, f_eff, f_info, f_hit, f_io, f_prev_ok,
                    f_read, f_seg, f_raised, f_cause >>

(***************************************************************************)
(* from_url (artifact.py) on the package path.                             *)
(***************************************************************************)
\* a digest string in upper case
Upper(h) == [h EXCEPT !.upper = TRUE]

\* a digest that is not the digest of any package (a package starts with a
\* frame header)
BadDigest == HexDigest(<< EndTok >>)

\* the values of expected_sha256 a caller passes: None, the digest the build
\* recorded (written in upper case), a wrong digest
ExpectedChoices ==
    { << >>, << Upper(metadata.expected_sha256[1]) >>, << BadDigest >> }

\* os.path.exists(path) for the cache path
CacheExists_Never(f) == FALSE
CacheExists(f) == Exists(f, CacheDir)

\* the assert on the caller's digest against the manifest's
ManifestAgrees_Always(exp, new) == TRUE
ManifestAgrees(exp, new) == exp = << >> \/ Lower(exp[1]) = new

\* the test of HashReader.close on the digest of the bytes read
HashMismatch_Never(exp, bytes) == FALSE
HashMismatch(exp, bytes) ==
    exp # << >> /\ Lower(exp[1]) # HexDigest(bytes)

\* the exception that leaves the ExitStack of from_url when `raised` was
\* raised under a hashing reader that has read `bytes`: the reader's close
\* runs during the unwinding, and when it raises, its exception is the one
\* that goes on
UnwindException(raised, exp, bytes) ==
    IF HashMismatch(exp, bytes) THEN "hash" ELSE raised

\* whether download_info has the key 'segments'
IsSegmented(info) == info # << >> /\ info[1].segments # << >>

\* the exceptional exit of the ExitStack of from_url: the sidecar's temporary
\* file is removed, then the temporary directory
FetchUnwind(f) == FDExitExc(FOExitExc(f, Sidecar), CacheDir)

\* the provenance record for a locator without a scheme
Provenance == [key |-> "path", locator |-> "package_path"]

\* the content of a directory `base` given what was created below "/"
RelDisk(disk, base) ==
    LET under == { q \in DOMAIN disk : StrictlyUnder(q, base) }
    IN  [r \in { SubSeq(q, Len(base) + 1, Len(q)) : q \in under } |->
            disk[base \o r]]

\* what was created outside the directory `base`
OutsideOf(disk, base) ==
    [q \in { r \in DOMAIN disk : ~StrictlyUnder(r, base) } |-> disk[q]]

\* from_url up to the test of the cache path; a run ends with the first call
\* whose commit failed
FetchStart ==
    /\ b_pc = "done"
    /\ f_pc \in {"idle", "returned", "raised"}
    /\ f_cause # "commit"
    /\ \E exp \in ExpectedChoices : f_expected' = exp
    /\ f_prev_ok' = (f_prev_ok \/ f_pc = "returned")
    /\ f_hit' = CacheExists(fs)
    /\ f_pc' = IF CacheExists(fs) THEN "load" ELSE "manifest"
    /\ f_io' = {}
    /\ f_eff' = << >>
    /\ f_info' = << >>
    /\ f_read' = << >>
    /\ f_seg' = 0
    /\ f_raised' = ""
    /\ f_cause' = ""
    /\ UNCHANGED << iovars, tree, listing, fs, walkvars, fovars, args, buildvars, xvars,
                    env >>

\* how open_or_download_stream and json.load on '<url>.json' end: "ok", with
\* an OSError (not found, or a failing read), with a JSON decoding error
ManifestLoad(f, e) ==
    IF ~Exists(f, Manifest) \/ e = "unreadable" THEN "OSError"
    ELSE IF f[Manifest] = << >> THEN "json"
    ELSE "ok"

\* `except OSError: pass`: what leaves the try block
ManifestErrorPropagates_Always(error) == TRUE
ManifestErrorPropagates(error) == error # "OSError"

\* the try block that loads '<url>.json'
FetchManifest ==
    /\ f_pc = "manifest"
    /\ f_io' = f_io \cup {"manifest"}
    /\ IF ManifestLoad(fs, env) # "ok" /\ ManifestErrorPropagates(ManifestLoad(fs, env))
       THEN /\ f_info' = << >>
            /\ f_eff' = f_expected
            /\ f_pc' = "raised"
            /\ f_raised' = ManifestLoad(fs, env)
            /\ f_cause' = ManifestLoad(fs, env)
       ELSE IF ManifestLoad(fs, env) = "ok"
       THEN LET m == fs[Manifest][1]
                new == Lower(m.expected_sha256[1])
            IN  /\ f_info' = << m >>
                /\ IF ManifestAgrees(f_expected, new)
                   THEN /\ f_eff' = << new >>
                        /\ f_pc' = "enter"
                        /\ UNCHANGED << f_raised, f_cause >>
                   ELSE /\ f_eff' = f_expected
                        /\ f_pc' = "raised"
                        /\ f_raised' = "assert"
                        /\ f_cause' = "assert"
       ELSE /\ f_info' = << >>
            /\ f_eff' = f_expected
            /\ f_pc' = "enter"
            /\ UNCHANGED << f_raised, f_cause >>
    /\ UNCHANGED << iovars, tree, listing, fs, walkvars, fovars, args, buildvars, xvars,
                    env, f_expected, f_hit, f_prev_ok, f_read, f_seg >>

\* the with block up to the first stream: the temporary directory, the
\* sidecar with the provenance, and the stream of the package or of segment 0
FetchEnter ==
    /\ f_pc = "enter"
    /\ LET f1 == FOWrite(FOEnter(FDEnter(fs, CacheDir), Sidecar), Sidecar,
                         << Provenance >>)
           first == IF IsSegmented(f_info) THEN Seg(0) ELSE Pkg
       IN  IF Exists(fs, first)
           THEN /\ fs' = f1
                /\ f_io' = f_io \cup {"tmpdir", "tmpfile", "stream"}
                /\ f_pc' = "read"
                /\ UNCHANGED << f_raised, f_cause >>
           ELSE /\ fs' = FetchUnwind(f1)
                /\ f_io' = f_io \cup {"tmpdir", "tmpfile"}
                /\ f_pc' = "raised"
                /\ f_raised' = "transport"
                /\ f_cause' = "transport"
    /\ UNCHANGED << iovars, tree, listing, walkvars, fovars, args, buildvars, xvars,
                    env, f_expected, f_eff, f_info, f_hit, f_prev_ok, f_read,
                    f_seg >>

\* the stream is read to its end: the package file, or one segment file after
\* the other, the next one opened when the one before is exhausted
FetchRead ==
    /\ f_pc = "read"
    /\ IF IsSegmented(f_info)
       THEN LET n == Len(f_info[1].segments)
            IN  /\ f_read' = f_read \o fs[Seg(f_seg)]
                /\ f_seg' = f_seg + 1
                /\ IF f_seg + 1 < n /\ ~Exists(fs, Seg(f_seg + 1))
                   THEN /\ fs' = FetchUnwind(fs)
                        /\ f_pc' = "raised"
                        /\ f_raised' = UnwindException("transport", f_eff, f_read')
                        /\ f_cause' = "transport"
                        /\ UNCHANGED f_io
                   ELSE /\ f_pc' = IF f_seg + 1 < n THEN "read" ELSE "extract"
                        /\ f_io' = IF f_seg + 1 < n THEN f_io \cup {"stream"} ELSE f_io
                        /\ UNCHANGED << fs, f_raised, f_cause >>
       ELSE /\ f_read' = fs[Pkg]
            /\ f_seg' = 1
            /\ f_pc' = "extract"
            /\ UNCHANGED << fs, f_io, f_raised, f_cause >>
    /\ UNCHANGED << iovars, tree, listing, walkvars, fovars, args, buildvars, xvars,
                    env, f_expected, f_eff, f_info, f_hit, f_prev_ok >>

\* a read of the package stream fails
FetchReadFails ==
    /\ f_pc = "read"
    /\ fs' = FetchUnwind(fs)
    /\ f_pc' = "raised"
    /\ f_raised' = UnwindException("transport", f_eff, f_read)
    /\ f_cause' = "transport"
    /\ UNCHANGED << iovars, tree, listing, walkvars, fovars, args, buildvars, xvars,
                    env, f_expected, f_eff, f_info, f_hit, f_io, f_prev_ok,
                    f_read, f_seg >>

\* the decompressor (for a path that ends with '.lz4'), tarfile.open and the
\* extraction loop
FetchExtract ==
    /\ f_pc = "extract"
    /\ LET dec == IF pkg_lz4 THEN Decompress(f_read)
                  ELSE [ok |-> TRUE, toks |-> f_read]
           tar == IF dec.ok THEN Untar(dec.toks)
                  ELSE [ok |-> FALSE, members |-> << >>]
           disk == ExtractAll(EmptyDisk, tar.members, DestBase)
           f1 == Put(fs, TmpOf(CacheDir), RelDisk(disk, DestBase))
       IN  IF tar.ok
           THEN /\ fs' = IF OutsideOf(disk, DestBase) = EmptyDisk THEN f1
                         ELSE Put(f1, Outside, OutsideOf(disk, DestBase))
                /\ f_pc' = "close"
                /\ UNCHANGED << f_raised, f_cause >>
           ELSE /\ fs' = FetchUnwind(fs)
                /\ f_pc' = "raised"
                /\ \E k \in 0..Len(f_read) :
                     f_raised' = UnwindException("format", f_eff,
                                                 SubSeq(f_read, 1, k))
                /\ f_cause' = "format"
    /\ UNCHANGED << iovars, tree, listing, walkvars, fovars, args, buildvars, xvars,
                    env, f_expected, f_eff, f_info, f_hit, f_io, f_prev_ok,
                    f_read, f_seg >>

\* the exit of the ExitStack down to the hashing reader: its close compares
\* the digests
FetchClose ==
    /\ f_pc = "close"
    /\ IF HashMismatch(f_eff, f_read)
       THEN /\ fs' = FetchUnwind(fs)
            /\ f_pc' = "raised"
            /\ f_raised' = "hash"
            /\ f_cause' = "hash"
       ELSE /\ f_pc' = "commit_side"
            /\ UNCHANGED << fs, f_raised, f_cause >>
    /\ UNCHANGED << iovars, tree, listing, walkvars, fovars, args, buildvars, xvars,
                    env, f_expected, f_eff, f_info, f_hit, f_io, f_prev_ok,
                    f_read, f_seg >>

\* the exit of the sidecar's finalized_open scope
FetchCommitSidecar ==
    /\ f_pc = "commit_side"
    /\ fs' = FOExitOk(fs, Sidecar)
    /\ f_pc' = "commit_dir"
    /\ UNCHANGED << iovars, tree, listing, walkvars, fovars, args, buildvars, xvars,
                    env, f_expected, f_eff, f_info, f_hit, f_io, f_prev_ok,
                    f_read, f_seg, f_raised, f_cause >>

\* the exit of the finalized_directory scope
FetchCommitDir ==
    /\ f_pc = "commit_dir"
    /\ fs' = FDExitOk(fs, CacheDir)
    /\ f_pc' = "load"
    /\ UNCHANGED << iovars, tree, listing, walkvars, fovars, args, buildvars, xvars,
                    env, f_expected, f_eff, f_info, f_hit, f_io, f_prev_ok,
                    f_read, f_seg, f_raised, f_cause >>

\* the exit of the finalized_directory scope fails, after the sidecar's scope
\* was left: os.chmod raises and the temporary directory is removed, or
\* os.replace raises and it stays
FetchCommitDirFails ==
    /\ f_pc = "commit_dir"
    /\ \E step \in {"chmod", "replace"} :
         /\ fs' = IF step = "chmod" THEN FDExitExc(fs, CacheDir) ELSE fs
         /\ f_raised' = step
    /\ f_pc' = "raised"
    /\ f_cause' = "commit"
    /\ UNCHANGED << iovars, tree, listing, walkvars, fovars, args, buildvars, xvars,
                    env, f_expected, f_eff, f_info, f_hit, f_io, f_prev_ok,
                    f_read, f_seg >>

\* cls.load(path) on the cache path
FetchLoad ==
    /\ f_pc = "load"
    /\ f_pc' = "returned"
    /\ UNCHANGED << iovars, tree, listing, fs, walkvars, fovars, args, buildvars, xvars,
                    env, f_expected, f_eff, f_info, f_hit, f_io, f_prev_ok,
                    f_read, f_seg, f_raised, f_cause >>

FetchNext ==
    \/ EnvTamper
    \/ EnvDropManifest
    \/ EnvDropFile
    \/ EnvManifestUnreadable
    \/ EnvCorruptManifest
    \/ EnvHostile
    \/ FetchStart
    \/ FetchManifest
    \/ FetchEnter
    \/ FetchRead
    \/ FetchReadFails
    \/ FetchExtract
    \/ FetchClose
    \/ FetchCommitSidecar
    \/ FetchCommitDir
    \/ FetchCommitDirFails
    \/ FetchLoad

Next == BuildNext \/ FetchNext

Spec == MainInit /\ [][Next]_vars

(***************************************************************************)
(* Properties of build_package and from_url.                               *)
(***************************************************************************)
\* the files of the artifact directory: relative path -> content
SourceContent(t, p) == [n \in 1..t[p] |-> DataTok(p, n, FALSE)]
SourceFiles == [p \in DOMAIN tree |-> SourceContent(tree, p)]

\* the files of the cache directory: relative path -> content
ExtractedFiles ==
    LET d == fs[CacheDir]
    IN  [q \in { r \in DOMAIN d : d[r].type = "file" } |-> d[q].content]

\* C1: whenever build_package completed, a from_url on the package path it
\* produced (nothing changed in between, no hash passed, no I/O error while
\* it runs) returns, and the directory extracted has the relative file paths
\* and the file contents of the source tree.
C1_RoundTrip ==
    (b_pc = "done" /\ env = "asbuilt" /\ f_expected = << >>
        /\ f_pc \in {"returned", "raised"}
        /\ f_cause \notin {"transport", "commit"})
    => (f_pc = "returned" /\ ExtractedFiles = SourceFiles)

\* C2: build_package runs to completion whatever the optional arguments are:
\* it raises only when an I/O error struck.
C2_BuildCompletes ==
    b_pc = "raised" => b_raised \in {"io", "commit"}

\* C4: once build_package has raised while an entry was being written, no
\* file is at the package path, at a segment path or at the manifest path,
\* and no temporary file of the build is left: the output directory is as
\* empty as it was.
C4_BuildAtomic ==
    (b_pc = "raised" /\ b_raised # "commit") => DOMAIN fs = {}

\* C25: whenever build_package has raised, a failure of a rename of the commit
\* phase included, neither the manifest nor a segment file nor the package
\* file of the build is at its final path.
C25_AllOrNothing ==
    b_pc = "raised" =>
        /\ ~Exists(fs, Manifest)
        /\ ~Exists(fs, Pkg)
        /\ \A n \in 0..chunk_num : ~Exists(fs, Seg(n))

\* an I/O error after a segment rotation, with two entries begun
C4_Witness ==
    /\ b_pc = "raised"
    /\ b_raised = "io"
    /\ chunk_num >= 1
    /\ Len(metadata.contents) >= 2

\* nothing of the cache entry exists: directory, sidecar, temporary siblings
NothingCached(f) ==
    /\ ~Exists(f, CacheDir)
    /\ ~Exists(f, Sidecar)
    /\ ~Exists(f, TmpOf(CacheDir))
    /\ ~Exists(f, TmpOf(Sidecar))

\* an expected digest of the call (the caller's, or the manifest's) differs
\* from the digest of the package bytes
ExpectedDiffers ==
    \/ f_expected # << >>
         /\ Lower(f_expected[1]) # HexDigest(PackageBytes(fs))
    \/ f_info # << >>
         /\ Lower(f_info[1].expected_sha256[1]) # HexDigest(PackageBytes(fs))

C7_VerifiedWhenGiven ==
    (f_pc = "returned" /\ f_expected # << >>)
    => Lower(f_expected[1]) = HexDigest(PackageBytes(fs))

\* C8: after one from_url has returned, every later from_url finds the cache
\* path, opens no manifest and no package or segment stream, creates no
\* temporary directory or file, and goes straight to the load.
C8_CacheShortCircuit ==
    f_prev_ok =>
        /\ f_hit
        /\ f_io = {}
        /\ f_pc \in {"load", "returned"}
        /\ f_raised = ""

\* a second call has returned
C8_Witness ==
    f_prev_ok /\ f_pc = "returned"

\* the total size of the segment files 0..n-1, at their final paths
RECURSIVE SizeBefore(_, _)
SizeBefore(f, n) ==
    IF n = 0 THEN 0 ELSE SizeBefore(f, n - 1) + Len(f[Seg(n - 1)])

\* the list is 0, 1, ..., k by idx, starts at offset 0 and its offsets increase
WellFormedSegments(segs) ==
    /\ \A j \in 1..Len(segs) : segs[j].idx = j - 1
    /\ segs[1].offset = 0
    /\ \A j \in 1..(Len(segs) - 1) : segs[j].offset < segs[j + 1].offset

\* C11: `segments` is absent exactly when no rotation occurred; when present
\* its idx run 0, 1, ..., k, the first offset is 0, the offsets increase
\* strictly, and once the build has returned segments[i].offset is the total
\* size of the segment files before segment i; the manifest on disk holds the
\* same list.
C11_SegmentBoundaries ==
    /\ (metadata.segments = << >>) <=> (chunk_num = 0)
    /\ metadata.segments # << >> =>
         /\ Len(metadata.segments) = chunk_num + 1
         /\ WellFormedSegments(metadata.segments)
    /\ (b_pc = "done" /\ chunk_num > 0 /\ env # "missing") =>
         \A j \in 1..Len(metadata.segments) :
            metadata.segments[j].offset = SizeBefore(fs, j - 1)
    /\ (b_pc = "done" /\ Exists(fs, Manifest) /\ env # "corrupt") =>
         fs[Manifest][1].segments = metadata.segments

\* C38: with a positive max_file_size every segment that was closed holds at
\* least max_file_size bytes, so none but the last can be empty and
\* consecutive rotations are at least max_file_size bytes apart; without
\* max_file_size there is no rotation.
C38_RotationThreshold ==
    /\ max_file_size = 0 => chunk_num = 0
    /\ max_file_size > 0 =>
         /\ \A j \in 1..(Len(metadata.segments) - 1) :
              metadata.segments[j + 1].offset - metadata.segments[j].offset
                >= max_file_size
         /\ b_pc \in {"entry", "chunks"} =>
              \A n \in 0..(chunk_num - 1) :
                  /\ Exists(fs, TmpOf(Seg(n)))
                  /\ Len(fs[TmpOf(Seg(n))]) >= max_file_size
         /\ b_pc = "commit" =>
              \A n \in 0..(chunk_num - 1) :
                  \/ Exists(fs, TmpOf(Seg(n)))
                       /\ Len(fs[TmpOf(Seg(n))]) >= max_file_size
                  \/ Exists(fs, Seg(n)) /\ Len(fs[Seg(n)]) >= max_file_size
         /\ (b_pc = "done" /\ chunk_num > 0 /\ env = "asbuilt") =>
              \A n \in 0..(chunk_num - 1) :
                  /\ Exists(fs, Seg(n))
                  /\ Len(fs[Seg(n)]) >= max_file_size

\* a build that returned after two rotations, with a closed segment that
\* had grown beyond max_file_size before the size check found it
C38_Witness ==
    /\ b_pc = "done"
    /\ env = "asbuilt"
    /\ max_file_size = 2
    /\ chunk_num = 2
    /\ \E n \in 0..1 : Len(fs[Seg(n)]) > 2

\* a build that returned after two rotations
C11_Witness ==
    b_pc = "done" /\ chunk_num >= 2 /\ Exists(fs, Manifest)

\* the bytes in the segment files of the build, temporary or final, in order
RECURSIVE WrittenBytes(_, _)
WrittenBytes(f, n) ==
    IF n < 0 THEN << >>
    ELSE WrittenBytes(f, n - 1)
           \o (IF Exists(f, TmpOf(Seg(n))) THEN f[TmpOf(Seg(n))]
               ELSE IF Exists(f, Seg(n)) THEN f[Seg(n)]
               ELSE << >>)

\* C12: while the build runs, the bytes hashed so far are the concatenation,
\* in idx order, of the bytes written to the segment files (each byte in one
\* segment, hashed once, also across a rotation); once the build has returned,
\* expected_sha256 is the SHA-256 of the concatenation of the segment files
\* (of the package file when there was no rotation).
C12_HashContinuity ==
    /\ b_pc \in {"entry", "chunks", "commit", "rename"} =>
         hash = WrittenBytes(fs, chunk_num)
    /\ (b_pc = "done" /\ env = "asbuilt") =>
         /\ metadata.expected_sha256 = << HexDigest(PackageBytes(fs)) >>
         /\ fs[Manifest][1].expected_sha256 = metadata.expected_sha256
         /\ Len(PackageFileNames(fs)) = chunk_num + 1

\* a build that returned with its bytes spread over several segment files
C12_Witness ==
    /\ b_pc = "done"
    /\ env = "asbuilt"
    /\ chunk_num >= 1
    /\ \A n \in 0..chunk_num : fs[Seg(n)] # << >>

\* the sizes of the entries, as _package_files yields them
EntrySize(e) == IF e.synth THEN SynthSize ELSE tree[e.path]

RECURSIVE SumOfSizes(_)
SumOfSizes(contents) ==
    IF contents = << >> THEN 0
    ELSE Head(contents).size + SumOfSizes(Tail(contents))

\* the bytes of the package written so far, whatever files they are in now
BytesOfBuild ==
    IF b_pc = "done" THEN PackageBytes(fs) ELSE WrittenBytes(fs, chunk_num)

\* C26: `contents` holds one record per entry in the order written, with the
\* size of the entry; total_size is the sum of the sizes; the offset of a
\* record is the number of bytes written to all segment files before the
\* header of its entry, so that a frame with that header first begins there;
\* the offsets do not decrease, across rotations either.
C26_ManifestContents ==
    (b_pc \in {"entry", "chunks", "commit", "rename"} \/ (b_pc = "done" /\ env = "asbuilt")) =>
        LET entries == PackageFiles(tree, listing)
            contents == metadata.contents
        IN  /\ Len(contents) + Len(b_todo) =
                   Len(entries) + (IF b_pc = "chunks" THEN 1 ELSE 0)
            /\ \A j \in 1..Len(contents) :
                  /\ contents[j].path = entries[j].path
                  /\ contents[j].size = EntrySize(entries[j])
                  /\ contents[j].offset < Len(BytesOfBuild)
                  /\ BytesOfBuild[contents[j].offset + 1] = LzHdr
                  /\ contents[j].offset + 1 < Len(BytesOfBuild) =>
                        BytesOfBuild[contents[j].offset + 2] =
                            HdrTok(contents[j].path, contents[j].size)
            /\ \A j \in 1..(Len(contents) - 1) :
                  contents[j].offset <= contents[j + 1].offset
            /\ metadata.total_size = SumOfSizes(contents)
            /\ b_pc = "done" =>
                  /\ fs[Manifest][1].contents = contents
                  /\ fs[Manifest][1].total_size = metadata.total_size
                  /\ \A j \in 1..Len(contents) :
                        contents[j].offset + 1 < Len(BytesOfBuild)

\* a build returned whose second entry was begun after a rotation
C26_Witness ==
    /\ b_pc = "done"
    /\ env = "asbuilt"
    /\ chunk_num >= 1
    /\ Len(metadata.contents) >= 2
    /\ metadata.contents[2].offset >= metadata.segments[2].offset

\* the package and segment files that exist, temporary ones included
PackageFilesOnDisk == { n \in DOMAIN fs : n.k \in {"pkg", "seg"} }

\* C27: after a build that returned with k >= 1 rotations exactly the files
\* <package>.0 .. <package>.k exist and `segments` has k + 1 entries; with no
\* rotation exactly <package> exists; so the files <url>.i, i < len(segments),
\* that the reader opens (or <url> without segments) hold the bytes written,
\* in order.
C27_SegmentNaming ==
    (b_pc = "done" /\ env = "asbuilt") =>
        /\ chunk_num >= 1 =>
             /\ PackageFilesOnDisk = { Seg(i) : i \in 0..chunk_num }
             /\ Len(fs[Manifest][1].segments) = chunk_num + 1
             /\ ConcatFiles(fs, [i \in 1..Len(fs[Manifest][1].segments) |-> Seg(i - 1)])
                  = hash
        /\ chunk_num = 0 =>
             /\ PackageFilesOnDisk = { Pkg }
             /\ fs[Manifest][1].segments = << >>
             /\ fs[Pkg] = hash
        /\ f_pc = "extract" =>
             /\ f_read = hash
             /\ f_seg = chunk_num + 1

\* a from_url has read the three segment files of a build to the end
C27_Witness ==
    /\ b_pc = "done"
    /\ env = "asbuilt"
    /\ chunk_num = 2
    /\ f_pc = "extract"
    /\ f_seg = 3
    /\ \A i \in 0..2 : fs[Seg(i)] # << >>

\* the caller passed a digest and the manifest loaded declares another one,
\* letter case aside
DigestsDisagree ==
    /\ f_expected # << >>
    /\ f_info # << >>
    /\ [f_expected[1] EXCEPT !.upper = FALSE]
         # [f_info[1].expected_sha256[1] EXCEPT !.upper = FALSE]

\* C28: a from_url that looks at the manifest fails, before any package stream
\* is opened and before any temporary file or directory is created, exactly
\* when the caller's digest and the manifest's differ, letter case aside;
\* otherwise the digest verified is the manifest's when there is one and the
\* caller's when there is none, and a call that returns has read the bytes of
\* that digest.
C28_ExpectedPrecedence ==
    (f_pc \in {"enter", "read", "extract", "close", "commit_side", "commit_dir",
               "returned", "raised"} /\ ~f_hit) =>
        /\ (f_cause = "assert") <=> DigestsDisagree
        /\ f_cause = "assert" =>
             /\ f_pc = "raised"
             /\ f_raised = "assert"
             /\ f_io = {"manifest"}
             /\ f_read = << >>
             /\ ~Exists(fs, TmpOf(CacheDir))
             /\ ~Exists(fs, TmpOf(Sidecar))
             /\ ~Exists(fs, CacheDir)
        /\ f_cause # "assert" =>
             /\ f_info # << >> =>
                  f_eff = << [f_info[1].expected_sha256[1] EXCEPT !.upper = FALSE] >>
             /\ f_info = << >> => f_eff = f_expected
             /\ (f_pc = "returned" /\ f_eff # << >>) =>
                  [f_eff[1] EXCEPT !.upper = FALSE] = HexDigest(f_read)

\* a call with a wrong digest has failed on a package that has its manifest
C28_Witness ==
    /\ f_pc = "raised"
    /\ f_cause = "assert"
    /\ f_expected = << BadDigest >>
    /\ Exists(fs, Manifest)
    /\ Exists(fs, Pkg) \/ Exists(fs, Seg(0))

\* '<url>.json' cannot be opened or cannot be read
ManifestUnavailable == ~Exists(fs, Manifest) \/ env = "unreadable"

\* C29: when the manifest cannot be opened or read, from_url does not fail
\* for it: it goes on with no download_info, fetches the url as one stream and
\* verifies the caller's digest only.  Any other error of the manifest leaves
\* from_url, and no cache directory, sidecar or temporary was created.
C29_OptionalManifest ==
    (f_pc \in {"enter", "read", "extract", "close", "commit_side", "commit_dir",
               "returned", "raised"} /\ ~f_hit) =>
        /\ ManifestUnavailable =>
             /\ f_cause \in {"", "transport", "hash", "format", "commit"}
             /\ f_info = << >>
             /\ f_eff = f_expected
             /\ f_pc \in {"extract", "close", "commit_side", "commit_dir", "returned"} =>
                  (f_read = fs[Pkg] /\ f_seg = 1)
        /\ env = "corrupt" => f_cause = "json"
        /\ f_cause \in {"json", "assert"} =>
             /\ f_pc = "raised"
             /\ f_raised = f_cause
             /\ f_io = {"manifest"}
             /\ NothingCached(fs)

\* a package was fetched although its manifest could not be read
C29_Witness ==
    /\ env = "unreadable"
    /\ Exists(fs, Manifest)
    /\ f_pc = "returned"
    /\ ~f_hit
    /\ f_expected # << >>
    /\ Exists(fs, CacheDir)

\* C39: in every state of from_url, those after a failure at any of its steps
\* included, the provenance sidecar is at its final path only if the cache
\* directory is at its final path; after a return it holds the locator.
C39_SidecarFollowsDirectory ==
    /\ Exists(fs, Sidecar) => Exists(fs, CacheDir)
    /\ (f_pc = "returned" /\ ~f_hit) =>
         (Exists(fs, Sidecar) /\ fs[Sidecar] = << Provenance >>)

\* C18: when the package stream or a segment stream cannot be opened, or a
\* read of the stream fails, from_url raises that error, and neither the cache
\* directory nor the sidecar exists afterwards.
C18_TransportFailure ==
    (f_pc = "raised" /\ f_cause = "transport") =>
        /\ f_raised = "transport"
        /\ ~Exists(fs, CacheDir)
        /\ ~Exists(fs, Sidecar)

\* the members of the package as it lies on disk
PackageMembers ==
    Untar(IF pkg_lz4 THEN Decompress(fs[Pkg]).toks ELSE fs[Pkg]).members

\* a member resolves outside the destination directory
Escapes(m) == ~StrictlyUnder(Normalize(PathJoin(DestBase, m.path)), DestBase)

\* where the members that pass the test of the loop are created
AcceptedTargets ==
    { Normalize(PathJoin(DestBase, PackageMembers[j].path)) :
        j \in { i \in 1..Len(PackageMembers) :
                  /\ PackageMembers[i].type \in {"file", "dir"}
                  /\ PathIsUnderBase(PackageMembers[i].path, DestBase) } }

\* what a from_url has created: the paths in the cache directory or in its
\* temporary, and the paths outside
CreatedTargets ==
    (IF Exists(fs, CacheDir)
     THEN { DestBase \o r : r \in DOMAIN fs[CacheDir] } ELSE {})
    \cup (IF Exists(fs, TmpOf(CacheDir))
          THEN { DestBase \o r : r \in DOMAIN fs[TmpOf(CacheDir)] } ELSE {})
    \cup (IF Exists(fs, Outside) THEN DOMAIN fs[Outside] ELSE {})

DEFAULT_CHUNK_SIZE == 2

Min(a, b) == IF a <= b THEN a ELSE b

\* the content of sub-stream i: len bytes, each different from every other
SubStream(i, len) == [n \in 1..len |-> [s |-> i, n |-> n]]

\* the sequences of sub-streams read: one to MaxSubs of them, empty ones too
SubStreamSeqs ==
    UNION { { [i \in 1..n |-> SubStream(i, lens[i])] :
                lens \in [1..n -> 0..MaxSubLen] } : n \in 1..MaxSubs }

\* the size arguments of read and read1; -1 is the default
ReadSizes == {-1} \cup 1..MaxReadSize

\* k bytes of a stream from position pos on
Take(sub, pos, k) == SubSeq(sub, pos + 1, pos + k)

\* _NosyReader.read over a file: at most DEFAULT_CHUNK_SIZE bytes, and less
\* than that only at the end of the file
NosyRead(sub, pos, size) ==
    LET sz == IF size = -1 THEN DEFAULT_CHUNK_SIZE ELSE size
    IN  Take(sub, pos, Min(Min(sz, DEFAULT_CHUNK_SIZE), Len(sub) - pos))

\* _NosyReader.read1 over a file: the chunks it may return, any positive
\* number of bytes up to the size asked while the file has bytes left
NosyRead1(sub, pos, size) ==
    LET sz == IF size = -1 THEN DEFAULT_CHUNK_SIZE ELSE size
        most == Min(Min(sz, DEFAULT_CHUNK_SIZE), Len(sub) - pos)
    IN  IF most = 0 THEN { << >> }
        ELSE { Take(sub, pos, k) : k \in 1..most }

\* self._reader.__enter__() of sub-stream i
OpenOf(i) == [op |-> "open", i |-> i, left |-> 0, empty |-> FALSE]

\* self.reader.close() of sub-stream i: the bytes of it not yet read, and
\* whether the read before the close returned an empty chunk
CloseOf(i, left, empty) == [op |-> "close", i |-> i, left |-> left, empty |-> empty]

\* MultiReader.read1(size): the chunk returned, the reader afterwards and
\* the sub-streams closed and opened by the call
MultiRead1(subs, cur, pos, size) ==
    LET sz == Min(IF size = -1 THEN DEFAULT_CHUNK_SIZE ELSE size,
                  DEFAULT_CHUNK_SIZE)
        first == NosyRead1(subs[cur], pos, sz)
        closed == CloseOf(cur, Len(subs[cur]) - pos, TRUE)
    IN  { [chunk |-> c, cur |-> cur, pos |-> pos + Len(c), ev |-> << >>] :
            c \in first \ { << >> } }
        \cup (IF << >> \notin first THEN {}
              ELSE IF cur = Len(subs)
              THEN { [chunk |-> << >>, cur |-> 0, pos |-> 0, ev |-> << closed >>] }
              ELSE { [chunk |-> c, cur |-> cur + 1, pos |-> Len(c),
                      ev |-> << closed, OpenOf(cur + 1) >>] :
                       c \in NosyRead1(subs[cur + 1], 0, sz) })

\* the while loop of MultiReader.read(size), size already defaulted; ev is
\* the sub-streams closed and opened so far by the call
RECURSIVE MultiReadLoop(_, _, _, _, _, _)
MultiReadLoop(subs, cur, pos, chunk, size, ev) ==
    IF Len(chunk) < size /\ cur # 0
    THEN LET got == NosyRead(subs[cur], pos, size - Len(chunk))
             chunk2 == chunk \o got
             closed == CloseOf(cur, Len(subs[cur]) - pos - Len(got), got = << >>)
         IN  IF Len(chunk2) < size
             THEN IF cur = Len(subs)
                  THEN [chunk |-> chunk2, cur |-> 0, pos |-> 0,
                        ev |-> Append(ev, closed)]
                  ELSE MultiReadLoop(subs, cur + 1, 0, chunk2, size,
                                     ev \o << closed, OpenOf(cur + 1) >>)
             ELSE MultiReadLoop(subs, cur, pos + Len(got), chunk2, size, ev)
    ELSE [chunk |-> chunk, cur |-> cur, pos |-> pos, ev |-> ev]

\* MultiReader.read(size)
MultiRead(subs, cur, pos, size) ==
    MultiReadLoop(subs, cur, pos, << >>,
                  IF size = -1 THEN DEFAULT_CHUNK_SIZE ELSE size, << >>)

\* the constructor: the first sub-stream is opened
MRInit ==
    /\ ArtifactIdle
    /\ HRIdle
    /\ SCIdle
    /\ LDIdle
    /\ RSIdle
    /\ RFIdle
    /\ BQIdle
    /\ TRIdle
    /\ NYIdle
    /\ BMIdle
    /\ ABIdle
    /\ VAIdle
    /\ CFIdle
    /\ mr_subs \in SubStreamSeqs
    /\ mr_cur = 1
    /\ mr_pos = 0
    /\ mr_got = << >>
    /\ mr_eof = FALSE
    /\ mr_last = << >>
    /\ mr_after = 0
    /\ mr_raised = ""
    /\ mr_log = << OpenOf(1) >>

\* the caller receives chunk r.chunk and the reader moves on
MRReturn(r) ==
    /\ mr_cur' = r.cur
    /\ mr_pos' = r.pos
    /\ mr_last' = r.chunk
    /\ mr_got' = IF mr_eof THEN mr_got ELSE mr_got \o r.chunk
    /\ mr_eof' = (mr_eof \/ r.chunk = << >>)
    /\ mr_after' = IF mr_cur = 0 THEN mr_after + 1 ELSE mr_after
    /\ mr_log' = mr_log \o r.ev

\* a call of read1
MRRead1 ==
    /\ mr_raised = ""
    /\ mr_after < MaxPast
    /\ \E size \in ReadSizes :
         IF mr_cur = 0
         THEN \* self.reader is None
              /\ mr_raised' = "AttributeError"
              /\ mr_after' = mr_after + 1
              /\ UNCHANGED << mr_cur, mr_pos, mr_got, mr_eof, mr_last, mr_log >>
         ELSE /\ \E r \in MultiRead1(mr_subs, mr_cur, mr_pos, size) : MRReturn(r)
              /\ UNCHANGED mr_raised
    /\ UNCHANGED << mrothers, mr_subs >>

\* a call of read
MRRead ==
    /\ mr_raised = ""
    /\ mr_after < MaxPast
    /\ \E size \in ReadSizes : MRReturn(MultiRead(mr_subs, mr_cur, mr_pos, size))
    /\ UNCHANGED << mrothers, mr_subs, mr_raised >>

MRNext == MRRead1 \/ MRRead

SpecMR == MRInit /\ [][MRNext]_vars

\* the contents of all the sub-streams, in order
RECURSIVE Concat(_)
Concat(subs) ==
    IF subs = << >> THEN << >> ELSE Head(subs) \o Concat(Tail(subs))

IsPrefixOf(a, b) == Len(a) <= Len(b) /\ SubSeq(b, 1, Len(a)) = a

\* C13: whatever the sub-streams and the calls are, the chunks returned up to
\* the first empty chunk are, concatenated, a prefix of the contents of all
\* the sub-streams in order, and the whole of it once the empty chunk has
\* come: no byte skipped, none duplicated.
C13_Concatenation ==
    /\ IsPrefixOf(mr_got, Concat(mr_subs))
    /\ mr_eof => mr_got = Concat(mr_subs)

\* C14: a call of read or read1 made after the final sub-stream was exhausted
\* returns an empty chunk and raises nothing.
C14_EofIsStable ==
    mr_after > 0 => (mr_raised = "" /\ mr_last = << >>)

\* the sub-streams open after the first n events of the log
OpenAfter(n) ==
    { i \in 1..Len(mr_subs) :
        /\ \E k \in 1..n : mr_log[k].op = "open" /\ mr_log[k].i = i
        /\ ~\E k \in 1..n : mr_log[k].op = "close" /\ mr_log[k].i = i }

\* C31: the sub-streams are opened in order and each at most once, never are
\* two of them open, and sub-stream i+1 is opened only after sub-stream i was
\* read to its end and closed.
C31_LazyInOrder ==
    /\ \A n \in 0..Len(mr_log) : Cardinality(OpenAfter(n)) <= 1
    /\ \A k, l \in 1..Len(mr_log) :
         (k < l /\ mr_log[k].op = "open" /\ mr_log[l].op = "open") =>
             mr_log[k].i < mr_log[l].i
    /\ \A l \in 1..Len(mr_log) :
         (mr_log[l].op = "open" /\ mr_log[l].i > 1) =>
             \E k \in 1..(l - 1) :
                 /\ mr_log[k].op = "close"
                 /\ mr_log[k].i = mr_log[l].i - 1
                 /\ mr_log[k].left = 0

(***************************************************************************)
(* HashReader (io.py) over a file.                                         *)
(***************************************************************************)
\* the digests a caller may expect: of some prefix of the stream, written in
\* lower or in upper case
ExpectedOf(data) ==
    { << >> } \cup
    { << [hex |-> Take(data, 0, k), upper |-> u] >> :
        k \in 0..Len(data), u \in BOOLEAN }

\* HashReader.on_data: self.hash.update(data)
HashUpdate_Drop(h, chunk) == h
HashUpdate(h, chunk) == h \o chunk

HRInit ==
    /\ ArtifactIdle
    /\ MRIdle
    /\ SCIdle
    /\ LDIdle
    /\ RSIdle
    /\ RFIdle
    /\ BQIdle
    /\ TRIdle
    /\ NYIdle
    /\ BMIdle
    /\ ABIdle
    /\ VAIdle
    /\ CFIdle
    /\ \E len \in 0..MaxSubLen : hr_data = SubStream(1, len)
    /\ hr_expected \in ExpectedOf(hr_data)
    /\ hr_pos = 0
    /\ hr_hashed = << >>
    /\ hr_pc = "open"
    /\ hr_inner = FALSE

\* a call of read or read1: the chunk of the wrapped stream goes to on_data
HRRead ==
    /\ hr_pc = "open"
    /\ \E size \in ReadSizes :
         \E chunk \in NosyRead1(hr_data, hr_pos, size)
                        \cup { NosyRead(hr_data, hr_pos, size) } :
            /\ hr_pos' = hr_pos + Len(chunk)
            /\ hr_hashed' = HashUpdate(hr_hashed, chunk)
    /\ UNCHANGED << hrothers, hr_data, hr_expected, hr_pc, hr_inner >>

\* close: self.reader.close(), then the comparison of the digests
HRClose ==
    /\ hr_pc = "open"
    /\ hr_inner' = TRUE
    /\ hr_pc' = IF HashMismatch(hr_expected, hr_hashed) THEN "raised"
                ELSE "closed"
    /\ UNCHANGED << hrothers, hr_data, hr_pos, hr_hashed, hr_expected >>

HRNext == HRRead \/ HRClose

SpecHR == HRInit /\ [][HRNext]_vars

\* C15: close raises exactly when an expected digest was supplied and its hex
\* digits, whatever their case, are not those of the SHA-256 of the bytes read
\* through the reader so far; whether it raises or not, the wrapped stream is
\* closed.
C15_HashReaderClose ==
    hr_pc \in {"closed", "raised"} =>
        /\ hr_inner
        /\ hr_pc = "raised" <=>
             (hr_expected # << >>
                /\ hr_expected[1].hex # HexDigest(Take(hr_data, 0, hr_pos)).hex)

\* close returned for an expected digest given in upper case, after reads
C15_Witness ==
    /\ hr_pc = "closed"
    /\ hr_pos >= 2
    /\ hr_expected # << >>
    /\ hr_expected[1].upper

(***************************************************************************)
(* One scope of finalized_open or of finalized_directory (io.py), with the *)
(* steps that may fail: the creation of the temporary, the body, the       *)
(* permission change, the final rename.                                    *)
(***************************************************************************)
\* the target of the scope
ScTarget(kind) == IF kind = "file" THEN Pkg ELSE CacheDir

\* a directory with the files of the set ps, all empty
DirOf(ps) == [q \in ps |-> [type |-> "file", content |-> << >>]]

\* what the target may hold before the scope: a file, a directory with a file
ScOld(kind) == IF kind = "file" THEN << "old" >> ELSE DirOf({ << "old" >> })

\* the empty temporary
ScEmpty(kind) == IF kind = "file" THEN << >> ELSE EmptyDir

\* what the body may add to the temporary
ScCanAdd(kind, written) ==
    IF kind = "file"
    THEN IF Len(written) < MaxWrites
         THEN { written \o << c >> : c \in {"x", "y"} } ELSE {}
    ELSE { DirOf(DOMAIN written \cup {q}) :
             q \in { << "f" >>, << "a", "g" >> } \ DOMAIN written }

\* mkstemp and open, or mkdtemp
ScEnter(f, kind) ==
    IF kind = "file" THEN FOEnter(f, Pkg) ELSE FDEnter(f, CacheDir)

\* the except branch: os.remove(path_tmp), or shutil.rmtree(path_tmp)
ScExitExc(f, kind) ==
    IF kind = "file" THEN FOExitExc(f, Pkg) ELSE FDExitExc(f, CacheDir)

\* os.replace(path_tmp, path)
ScExitOk(f, kind) ==
    IF kind = "file" THEN FOExitOk(f, Pkg) ELSE FDExitOk(f, CacheDir)

\* the exception that leaves the scope when the creation of the temporary
\* failed: finalized_open re-raises it (path_tmp is None); finalized_directory
\* reaches shutil.rmtree(path_tmp) with path_tmp unbound
CreateFailure(kind) ==
    IF kind = "file" THEN "create" ELSE "UnboundLocalError"

SCInit ==
    /\ TreeIdle
    /\ WalkIdle
    /\ FOIdle
    /\ MainIdle
    /\ MRIdle
    /\ HRIdle
    /\ LDIdle
    /\ RSIdle
    /\ RFIdle
    /\ BQIdle
    /\ TRIdle
    /\ NYIdle
    /\ BMIdle
    /\ ABIdle
    /\ VAIdle
    /\ CFIdle
    /\ sc_kind \in {"file", "dir"}
    /\ sc_prior \in { << >>, << ScOld(sc_kind) >> }
    /\ fs = IF sc_prior = << >> THEN NoFiles
            ELSE Put(NoFiles, ScTarget(sc_kind), sc_prior[1])
    /\ sc_pc = "start"
    /\ sc_written = ScEmpty(sc_kind)
    /\ sc_cause = ""
    /\ sc_exc = ""

\* the temporary is created and the body begins
SCCreate ==
    /\ sc_pc = "start"
    /\ fs' = ScEnter(fs, sc_kind)
    /\ sc_pc' = "body"
    /\ UNCHANGED << scothers, sc_kind, sc_prior, sc_written, sc_cause, sc_exc >>

\* mkstemp or mkdtemp raises
SCCreateFails ==
    /\ sc_pc = "start"
    /\ sc_pc' = "raised"
    /\ sc_cause' = "create"
    /\ sc_exc' = CreateFailure(sc_kind)
    /\ UNCHANGED << scothers, fs, sc_kind, sc_prior, sc_written >>

\* the body writes to the temporary file, or creates a file in the directory
SCBodyWrite ==
    /\ sc_pc = "body"
    /\ \E w \in ScCanAdd(sc_kind, sc_written) :
         /\ sc_written' = w
         /\ fs' = Put(fs, TmpOf(ScTarget(sc_kind)), w)
    /\ UNCHANGED << scothers, sc_kind, sc_pc, sc_prior, sc_cause, sc_exc >>

\* the body raises: the except branch removes the temporary and re-raises
SCBodyRaise ==
    /\ sc_pc = "body"
    /\ fs' = ScExitExc(fs, sc_kind)
    /\ sc_pc' = "raised"
    /\ sc_cause' = "body"
    /\ sc_exc' = "body"
    /\ UNCHANGED << scothers, sc_kind, sc_prior, sc_written >>

\* the body returns, os.chmod raises: the except branch again
SCChmodFails ==
    /\ sc_pc = "body"
    /\ fs' = ScExitExc(fs, sc_kind)
    /\ sc_pc' = "raised"
    /\ sc_cause' = "chmod"
    /\ sc_exc' = "chmod"
    /\ UNCHANGED << scothers, sc_kind, sc_prior, sc_written >>

\* the body returns, os.chmod succeeds, os.replace raises outside the try
SCRenameFails ==
    /\ sc_pc = "body"
    /\ sc_pc' = "raised"
    /\ sc_cause' = "rename"
    /\ sc_exc' = "rename"
    /\ UNCHANGED << scothers, fs, sc_kind, sc_prior, sc_written >>

\* the body returns, os.chmod and os.replace succeed
SCExit ==
    /\ sc_pc = "body"
    /\ fs' = ScExitOk(fs, sc_kind)
    /\ sc_pc' = "done"
    /\ UNCHANGED << scothers, sc_kind, sc_prior, sc_written, sc_cause, sc_exc >>

SCNext ==
    \/ SCCreate
    \/ SCCreateFails
    \/ SCBodyWrite
    \/ SCBodyRaise
    \/ SCChmodFails
    \/ SCRenameFails
    \/ SCExit

SpecScope == SCInit /\ [][SCNext]_vars

\* C16: in a finalized_directory scope the target holds what it held before
\* until the scope is left; when the body raised, the temporary directory is
\* gone, the target is as before and the caller gets the body's exception;
\* on a successful exit the target is the directory the body filled and no
\* temporary is left.
C16_AtomicDirectoryWrite ==
    sc_kind = "dir" =>
        /\ sc_pc \in {"start", "body", "raised"} =>
             Holds(fs, CacheDir) = sc_prior
        /\ (sc_pc = "raised" /\ sc_cause = "body") =>
             /\ ~Exists(fs, TmpOf(CacheDir))
             /\ sc_exc = "body"
        /\ sc_pc = "done" =>
             /\ Holds(fs, CacheDir) = << sc_written >>
             /\ ~Exists(fs, TmpOf(CacheDir))

\* the body raised after it created a nested file, over an existing target
C16_Witness ==
    /\ sc_kind = "dir"
    /\ sc_pc = "raised"
    /\ sc_cause = "body"
    /\ << "a", "g" >> \in DOMAIN sc_written
    /\ sc_prior # << >>

\* C17: however the scope is left, no temporary file or directory that it
\* created remains.
C17_NoTemporaryLeft ==
    sc_pc \in {"done", "raised"} => ~Exists(fs, TmpOf(ScTarget(sc_kind)))

(***************************************************************************)
(* The extraction loop of from_url over the members of any archive.        *)
(***************************************************************************)
\* member paths an archive may name
MemberPaths ==
    { << "f" >>, << "a", "f" >>, << "a", "..", "f" >>, << "..", "f" >>,
      << "..", "..", "etc", "passwd" >>, << "..", "dd", "f" >>,
      << "/", "etc", "passwd" >> }

Members ==
    [type : {"file", "dir", "sym"}, path : MemberPaths, content : { << >> }]

Archives == UNION { [1..n -> Members] : n \in 1..MaxMembers }

ExtractInit ==
    /\ IOIdle
    /\ x_members \in Archives
    /\ x_disk = EmptyDisk
    /\ fs = NoFiles
    /\ TreeIdle
    /\ WalkIdle
    /\ FOIdle
    /\ ArgsIdle
    /\ BuildIdle
    /\ FetchIdle

\* one iteration of `for member in tar_in`
ExtractStep ==
    /\ x_members # << >>
    /\ x_disk' = ExtractAll(x_disk, << Head(x_members) >>, DestBase)
    /\ x_members' = Tail(x_members)
    /\ UNCHANGED << iovars, tree, listing, fs, walkvars, fovars, args, buildvars,
                    fetchvars >>

ExtractNext == ExtractStep

SpecExtract == ExtractInit /\ [][ExtractNext]_vars

\* C6: whatever the member paths are, everything the extraction loop creates
\* lies strictly under the destination directory.
C6_NoEscape ==
    \A q \in DOMAIN x_disk : StrictlyUnder(q, DestBase)

(***************************************************************************)
(* load and load_metadata (artifact.py): from the metadata of a path to an *)
(* implementation.  A metadata dict is a function from the keys it has to  *)
(* their values; an entry point is known by its place in the registry.     *)
(***************************************************************************)
MaxAdapters == 2
MaxRegistry == 2

MetadataKeys == {"type", "format", "package_hint"}
TypeValues == {"a", "b"}
HintValues == {"pkg"}

\* the dicts a pt_meta.json can hold
MetadataDicts ==
    UNION { { md \in [D -> TypeValues \cup HintValues] :
                /\ "package_hint" \in D => md["package_hint"] \in HintValues
                /\ \A k \in D \ {"package_hint"} : md[k] \in TypeValues }
            : D \in SUBSET MetadataKeys }

\* what lies at a path: nothing, a file, a directory with or without
\* pt_meta.json
LoadPaths ==
    { [kind |-> "missing", meta |-> << >>], [kind |-> "file", meta |-> << >>],
      [kind |-> "dir", meta |-> << >>] }
    \cup { [kind |-> "dir", meta |-> << md >>] : md \in MetadataDicts }

\* what a metadata adapter returns: << >> for None, << md >> for a dict
AdapterResults ==
    { << >>,
      << NoMetadata >>,
      << [k \in {"format"} |-> "a"] >>,
      << [k \in {"type", "format"} |-> IF k = "type" THEN "a" ELSE "b"] >>,
      << [k \in MetadataKeys |->
            IF k = "type" THEN "b" ELSE IF k = "format" THEN "a" ELSE "pkg"] >> }

\* '{type}.{format}'.format(**metadata)
EntryPointName(md) == << md["type"], ".", md["format"] >>

RegistryNames == { << t, ".", f >> : t \in TypeValues, f \in TypeValues }

\* load_metadata
LoadMetadata(path) ==
    IF path.kind # "dir"
    THEN IF path.kind = "file" THEN [ok |-> TRUE, md |-> NoMetadata]
         ELSE [ok |-> FALSE, md |-> NoMetadata]
    ELSE IF path.meta # << >> THEN [ok |-> TRUE, md |-> path.meta[1]]
         ELSE [ok |-> TRUE, md |-> NoMetadata]

\* _metadata_adapter: the result of the first adapter that returns one
RECURSIVE MetadataAdapter(_)
MetadataAdapter(adapters) ==
    IF adapters = << >> THEN NoMetadata
    ELSE IF Head(adapters) # << >> THEN Head(adapters)[1]
    ELSE MetadataAdapter(Tail(adapters))

\* os.listdir(path) for a directory, [] for anything else
DirectoryListing(path) ==
    IF path.kind # "dir" THEN << >>
    ELSE IF path.meta # << >> THEN << "data", "pt_meta.json" >>
    ELSE << "data" >>

\* entry_point.load()(path, directory_listing) of the adapter at place i
AdapterCall(path, i) ==
    [adapter |-> i, path |-> path, listing |-> DirectoryListing(path)]

\* the loop of _metadata_adapter: the adapters called, in order, up to the
\* first that returns something
ProbeCalls_All(path, adapters) ==
    [i \in 1..Len(adapters) |-> AdapterCall(path, i)]
ProbeCalls(path, adapters) ==
    LET answers == { i \in 1..Len(adapters) : adapters[i] # << >> }
        last == IF answers = {} THEN Len(adapters)
                ELSE CHOOSE i \in answers : \A j \in answers : i <= j
    IN  [i \in 1..last |-> AdapterCall(path, i)]

\* the adapters load calls
LoadCalls(path, adapters) ==
    LET lm == LoadMetadata(path)
    IN  IF ~lm.ok THEN << >>
        ELSE IF "type" \notin DOMAIN lm.md \/ "format" \notin DOMAIN lm.md
        THEN ProbeCalls(path, adapters)
        ELSE << >>

\* dict.update
DictUpdate(md, other) ==
    [k \in DOMAIN md \cup DOMAIN other |->
        IF k \in DOMAIN other THEN other[k] ELSE md[k]]

\* the metadata load works with, once the adapters have been asked
ProbedMetadata(md, adapters) ==
    IF "type" \notin DOMAIN md \/ "format" \notin DOMAIN md
    THEN DictUpdate(md, MetadataAdapter(adapters))
    ELSE md

\* matching_entry_points, as places in the registry
MatchingEntryPoints_Any(md, registry) == { i \in 1..Len(registry) : TRUE }
MatchingEntryPoints(md, registry) ==
    { i \in 1..Len(registry) : registry[i] = EntryPointName(md) }

\* metadata.get(key, "(unknown)")
GetOrUnknown(md, key) == IF key \in DOMAIN md THEN md[key] ELSE "(unknown)"

\* the ValueError of load
NoImplementation(md) ==
    [kind |-> "ValueError",
     type |-> GetOrUnknown(md, "type"),
     format |-> GetOrUnknown(md, "format"),
     hint |-> IF "package_hint" \in DOMAIN md
              THEN << md["package_hint"] >> ELSE << >>]

\* load
Load(path, adapters, registry) ==
    LET lm == LoadMetadata(path)
        md == ProbedMetadata(lm.md, adapters)
        matching == IF "type" \in DOMAIN md /\ "format" \in DOMAIN md
                    THEN MatchingEntryPoints(md, registry) ELSE {}
    IN  IF ~lm.ok THEN [kind |-> "FileNotFoundError"]
        ELSE IF matching # {}
        THEN [kind |-> "instance",
              entry_point |-> CHOOSE i \in matching : \A j \in matching : i <= j]
        ELSE NoImplementation(md)

SubSeqsUpTo(S, n) == UNION { [1..k -> S] : k \in 0..n }

LDInit ==
    /\ ArtifactIdle
    /\ MRIdle
    /\ HRIdle
    /\ SCIdle
    /\ RSIdle
    /\ RFIdle
    /\ BQIdle
    /\ TRIdle
    /\ NYIdle
    /\ BMIdle
    /\ ABIdle
    /\ VAIdle
    /\ CFIdle
    /\ ld_path \in LoadPaths
    /\ ld_adapters \in SubSeqsUpTo(AdapterResults, MaxAdapters)
    /\ ld_registry \in SubSeqsUpTo(RegistryNames, MaxRegistry)
    /\ ld_pc = "start"
    /\ ld_out = [kind |-> "none"]
    /\ ld_calls = << >>

LDLoad ==
    /\ ld_pc = "start"
    /\ ld_out' = Load(ld_path, ld_adapters, ld_registry)
    /\ ld_calls' = LoadCalls(ld_path, ld_adapters)
    /\ ld_pc' = "done"
    /\ UNCHANGED << ldothers, ld_path, ld_adapters, ld_registry >>

LDNext == LDLoad

SpecLoad == LDInit /\ [][LDNext]_vars

\* the metadata known once pt_meta.json was read and, where type or format
\* is missing from it, the first adapter with a result was merged over it
KnownMetadata ==
    LET file == IF ld_path.meta = << >> THEN NoMetadata ELSE ld_path.meta[1]
        answers == { i \in 1..Len(ld_adapters) : ld_adapters[i] # << >> }
        first == IF answers = {} THEN NoMetadata
                 ELSE ld_adapters[CHOOSE i \in answers : \A j \in answers : i <= j][1]
    IN  IF {"type", "format"} \subseteq DOMAIN file THEN file
        ELSE [k \in DOMAIN file \cup DOMAIN first |->
                IF k \in DOMAIN first THEN first[k] ELSE file[k]]

\* the places of the registry whose name is "{type}.{format}"
NamedImplementations ==
    IF {"type", "format"} \subseteq DOMAIN KnownMetadata
    THEN { i \in 1..Len(ld_registry) :
             ld_registry[i] = << KnownMetadata["type"], ".", KnownMetadata["format"] >> }
    ELSE {}

\* C20: for a path that exists, load raises the no-implementation error
\* exactly when type or format is still unknown after pt_meta.json and the
\* adapters, or no entry point is named "{type}.{format}"; otherwise it
\* instantiates the first entry point of that name in registry order.  The
\* error names the type and the format tried, and carries the install hint
\* exactly when package_hint is known.
C20_Resolution ==
    (ld_pc = "done" /\ ld_path.kind # "missing") =>
        /\ ld_out.kind \in {"ValueError", "instance"}
        /\ ld_out.kind = "ValueError" <=> NamedImplementations = {}
        /\ ld_out.kind = "instance" =>
             /\ ld_out.entry_point \in NamedImplementations
             /\ \A j \in NamedImplementations : ld_out.entry_point <= j
        /\ ld_out.kind = "ValueError" =>
             /\ ld_out.type = (IF "type" \in DOMAIN KnownMetadata
                               THEN KnownMetadata["type"] ELSE "(unknown)")
             /\ ld_out.format = (IF "format" \in DOMAIN KnownMetadata
                                 THEN KnownMetadata["format"] ELSE "(unknown)")
             /\ (ld_out.hint # << >>) <=> "package_hint" \in DOMAIN KnownMetadata
             /\ ld_out.hint # << >> => ld_out.hint[1] = KnownMetadata["package_hint"]

\* C34: load calls the metadata adapters only for a path that exists and
\* whose pt_meta.json lacks type or format; it calls them in registry order,
\* each with the path and its directory listing, and none after the first
\* that returned something other than None.
C34_Probing ==
    ld_pc = "done" =>
        /\ ld_calls # << >> =>
             /\ ld_path.kind # "missing"
             /\ \/ ld_path.meta = << >>
                \/ ~({"type", "format"} \subseteq DOMAIN ld_path.meta[1])
        /\ (/\ ld_path.kind # "missing"
            /\ ld_path.meta # << >> =>
                  ~({"type", "format"} \subseteq DOMAIN ld_path.meta[1])
            /\ ld_adapters # << >>) => ld_calls # << >>
        /\ Len(ld_calls) <= Len(ld_adapters)
        /\ \A k \in 1..Len(ld_calls) :
             /\ ld_calls[k].adapter = k
             /\ ld_calls[k].path = ld_path
             /\ ld_calls[k].listing =
                  (IF ld_path.kind = "dir"
                   THEN IF ld_path.meta # << >> THEN << "data", "pt_meta.json" >>
                        ELSE << "data" >>
                   ELSE << >>)
             /\ k < Len(ld_calls) => ld_adapters[k] = << >>
        /\ (ld_calls # << >> /\ Len(ld_calls) < Len(ld_adapters)) =>
             ld_adapters[Len(ld_calls)] # << >>

\* the first of two adapters answered for a directory whose pt_meta.json has
\* no format, and the second, which would have answered too, was not called
C34_Witness ==
    /\ ld_pc = "done"
    /\ ld_path.kind = "dir"
    /\ ld_path.meta # << >>
    /\ "type" \in DOMAIN ld_path.meta[1]
    /\ "format" \notin DOMAIN ld_path.meta[1]
    /\ Len(ld_adapters) = 2
    /\ ld_adapters[1] # << >>
    /\ ld_adapters[2] # << >>
    /\ Len(ld_calls) = 1

\* load has instantiated the second of two entry points, the first of another
\* name, with type and format learnt from the second adapter
C20_Witness ==
    /\ ld_pc = "done"
    /\ ld_out.kind = "instance"
    /\ ld_out.entry_point = 2
    /\ ld_path.kind = "dir"
    /\ ld_path.meta # << >>
    /\ "type" \in DOMAIN ld_path.meta[1]
    /\ "format" \notin DOMAIN ld_path.meta[1]
    /\ Len(ld_adapters) = 2
    /\ ld_adapters[1] = << >>

(***************************************************************************)
(* from_hf and the protocol resolution loop of from_url (artifact.py).  A  *)
(* string is a sequence of tokens; ":" and "@" are tokens of their own.    *)
(***************************************************************************)
Protocols == {"hf", "p", "q"}
Schemes == Protocols \cup {"https"}

\* urlparse, as far as scheme and path go
UrlParse(url) ==
    IF Len(url) >= 2 /\ url[2] = ":"
    THEN [scheme |-> url[1], path |-> SubSeq(url, 3, Len(url))]
    ELSE [scheme |-> "", path |-> url]

\* '@' in s
HasAt(str) == \E i \in 1..Len(str) : str[i] = "@"

\* s.split('@', 1) of a string with '@' in it
SplitAt(str) ==
    LET i == CHOOSE k \in 1..Len(str) :
                 str[k] = "@" /\ \A j \in 1..(k - 1) : str[j] # "@"
    IN  << SubSeq(str, 1, i - 1), SubSeq(str, i + 1, Len(str)) >>

\* _hf_url_resolver
HfUrlResolver(parsed_url) ==
    LET org_repo == parsed_url.path
        parts == IF HasAt(org_repo) THEN SplitAt(org_repo)
                 ELSE << org_repo, << "main" >> >>
    IN  << "https", ":", "//huggingface.co/datasets/" >> \o parts[1]
          \o << "/resolve/" >> \o parts[2] \o << "/artifact.tar.lz4" >>

\* what a registered resolver does: the resolver of this package, one that
\* returns None, one that returns the url under another scheme
ResolverKinds ==
    { [kind |-> "hf", scheme |-> ""], [kind |-> "none", scheme |-> ""] }
    \cup { [kind |-> "to", scheme |-> sc] : sc \in Schemes }

\* resolver(parsed_url): << >> for None, << url >> for a string
CallResolver(r, parsed_url) ==
    IF r.kind = "hf" THEN << HfUrlResolver(parsed_url) >>
    ELSE IF r.kind = "none" THEN << >>
    ELSE << << r.scheme, ":" >> \o parsed_url.path >>

\* the tables of entry points 'pyterrier.artifact.url_protocol_resolver':
\* 'hf' is the resolver of this package when it is registered
ResolverTables ==
    UNION { { t \in [D -> ResolverKinds] :
                \A pr \in D : (t[pr].kind = "hf") <=> (pr = "hf") }
            : D \in SUBSET Protocols }

Repos == { << "o/r" >>, << "o/r", "@", "v1" >>, << "o/r", "@", "v1", "@", "x" >> }
Branches == { << "v2" >>, << "branch" >>, << "main" >> }

Urls ==
    { << sc, ":", "x" >> : sc \in Schemes } \cup { << "x" >> }
    \cup { << "hf", ":" >> \o r : r \in Repos }

\* del protocol_entry_points[parsed_url.scheme]
RemoveProtocol_Keep(left, scheme) == left
RemoveProtocol(left, scheme) == left \ {scheme}

\* repo = f'{repo}@branch'
WithBranch(repo, branch) == repo \o << "@", "branch" >>

RSInit ==
    /\ ArtifactIdle
    /\ MRIdle
    /\ HRIdle
    /\ SCIdle
    /\ LDIdle
    /\ RFIdle
    /\ BQIdle
    /\ TRIdle
    /\ NYIdle
    /\ BMIdle
    /\ ABIdle
    /\ VAIdle
    /\ CFIdle
    /\ rs_table \in ResolverTables
    /\ rs_left = {}
    /\ rs_url = [scheme |-> "", path |-> << >>]
    /\ rs_pc = "start"
    /\ rs_calls = [pr \in DOMAIN rs_table |-> 0]
    /\ rs_iter = 0
    /\ rs_repo = << >>
    /\ rs_branch = << >>

\* from_url(url) up to the resolution loop
RSFromUrl ==
    /\ rs_pc = "start"
    /\ \E url \in Urls : rs_url' = url
    /\ rs_left' = DOMAIN rs_table
    /\ rs_pc' = "loop"
    /\ UNCHANGED << rsothers, rs_table, rs_calls, rs_iter, rs_repo, rs_branch >>

\* from_hf(repo, branch) up to the resolution loop of the from_url it calls
RSFromHf ==
    /\ rs_pc = "start"
    /\ \E repo \in Repos, branch \in {<< >>} \cup { << b >> : b \in Branches } :
         /\ rs_repo' = << repo >>
         /\ rs_branch' = branch
         /\ IF branch # << >> /\ HasAt(repo)
            THEN /\ rs_pc' = "raised"
                 /\ UNCHANGED << rs_url, rs_left >>
            ELSE /\ rs_url' = << "hf", ":" >> \o
                        (IF branch # << >> THEN WithBranch(repo, branch[1]) ELSE repo)
                 /\ rs_left' = DOMAIN rs_table
                 /\ rs_pc' = "loop"
    /\ UNCHANGED << rsothers, rs_table, rs_calls, rs_iter >>

\* one iteration of the while loop
RSResolve ==
    /\ rs_pc = "loop"
    /\ UrlParse(rs_url).scheme \in rs_left
    /\ LET parsed_url == UrlParse(rs_url)
           tmp_url == CallResolver(rs_table[parsed_url.scheme], parsed_url)
       IN  /\ rs_calls' = [rs_calls EXCEPT ![parsed_url.scheme] = @ + 1]
           /\ rs_left' = RemoveProtocol(rs_left, parsed_url.scheme)
           /\ rs_url' = IF tmp_url # << >> THEN tmp_url[1] ELSE rs_url
    /\ rs_iter' = rs_iter + 1
    /\ UNCHANGED << rsothers, rs_table, rs_pc, rs_repo, rs_branch >>

\* the loop condition is false
RSExit ==
    /\ rs_pc = "loop"
    /\ UrlParse(rs_url).scheme \notin rs_left
    /\ rs_pc' = "resolved"
    /\ UNCHANGED << rsothers, rs_table, rs_left, rs_url, rs_calls, rs_iter,
                    rs_repo, rs_branch >>

RSNext ==
    \/ RSFromUrl
    \/ RSFromHf
    \/ RSResolve
    \/ RSExit

SpecResolve == RSInit /\ [][RSNext]_vars

\* C21: from_hf(repo, branch=b) with no '@' in repo resolves to the url that
\* from_hf('repo@b') resolves to; with a branch both in repo and as argument
\* it raises.
C21_BranchArgument ==
    (rs_repo # << >> /\ rs_branch # << >> /\ "hf" \in DOMAIN rs_table) =>
        /\ rs_pc = "raised" <=> HasAt(rs_repo[1])
        /\ rs_pc = "resolved" =>
             rs_url = HfUrlResolver(UrlParse(<< "hf", ":" >> \o rs_repo[1]
                                              \o << "@" >> \o rs_branch[1]))

\* C30: the resolution loop makes at most as many iterations as there are
\* registered protocols and invokes each resolver at most once, whatever the
\* resolvers return; once that many iterations are made the loop condition
\* is false.
C30_ResolutionTerminates ==
    /\ rs_iter <= Cardinality(DOMAIN rs_table)
    /\ \A pr \in DOMAIN rs_calls : rs_calls[pr] <= 1
    /\ rs_iter = Cardinality({ pr \in DOMAIN rs_calls : rs_calls[pr] = 1 })
    /\ (rs_pc = "loop" /\ rs_iter = Cardinality(DOMAIN rs_table))
         => UrlParse(rs_url).scheme \notin rs_left

\* two resolvers that map to each other were each invoked, and the loop ended
C30_Witness ==
    /\ rs_pc = "resolved"
    /\ {"p", "q"} \subseteq DOMAIN rs_table
    /\ rs_table["p"] = [kind |-> "to", scheme |-> "q"]
    /\ rs_table["q"] = [kind |-> "to", scheme |-> "p"]
    /\ rs_calls["p"] = 1
    /\ rs_calls["q"] = 1

(***************************************************************************)
(* rr_fusion (fusion.py).  A result frame holds, for each qid it has rows  *)
(* for, the docnos in the order of descending score.                       *)
(***************************************************************************)
MaxFrames == 2
MaxNumResults == 2
RRF_K == 60

Qids == 1..2
Docnos == 1..2

\* the rankings one frame can hold for one query
Rankings ==
    { r \in UNION { [1..n -> Docnos] : n \in 1..Cardinality(Docnos) } :
        \A i, j \in 1..Len(r) : i # j => r[i] # r[j] }

ResultFrames == UNION { [D -> Rankings] : D \in SUBSET Qids }

\* 1/(rank + k), times the product of all the denominators that occur
RECURSIVE ScoreScale(_)
ScoreScale(rank) ==
    IF rank < 0 THEN 1 ELSE (rank + RRF_K) * ScoreScale(rank - 1)

ReciprocalRank(rank) == ScoreScale(Cardinality(Docnos) - 1) \div (rank + RRF_K)

\* the rows of one frame for one qid after add_ranks and assign(score=...)
GroupRows(frame, qid) ==
    [i \in 1..Len(frame[qid]) |->
        [docno |-> frame[qid][i], score |-> ReciprocalRank(i - 1)]]

\* the keys of all_qids in insertion order: per frame, groupby yields the
\* qids in ascending order
RECURSIVE AscendingSeq(_)
AscendingSeq(S) ==
    IF S = {} THEN << >>
    ELSE LET m == CHOOSE x \in S : \A y \in S : x <= y
         IN  << m >> \o AscendingSeq(S \ {m})

RECURSIVE AllQids(_, _)
AllQids(results, seen) ==
    IF results = << >> THEN << >>
    ELSE LET new == DOMAIN Head(results) \ seen
         IN  AscendingSeq(new) \o AllQids(Tail(results), seen \cup new)

\* all_qids[qid]: the groups of the frames that have rows for qid
RECURSIVE QidFrames(_, _)
QidFrames(results, qid) ==
    IF results = << >> THEN << >>
    ELSE (IF qid \in DOMAIN Head(results)
          THEN << GroupRows(Head(results), qid) >> ELSE << >>)
         \o QidFrames(Tail(results), qid)

ScoreIn(rows, docno) ==
    IF \E i \in 1..Len(rows) : rows[i].docno = docno
    THEN rows[CHOOSE i \in 1..Len(rows) : rows[i].docno = docno].score
    ELSE 0

\* merge(how='outer') and the sum of the two scores with fillna(0.): the
\* union of the keys in ascending order
MergeOuter(left, right) ==
    LET keys == AscendingSeq({ left[i].docno : i \in 1..Len(left) }
                              \cup { right[i].docno : i \in 1..Len(right) })
    IN  [i \in 1..Len(keys) |->
            [docno |-> keys[i],
             score |-> ScoreIn(left, keys[i]) + ScoreIn(right, keys[i])]]

RECURSIVE MergeAll(_, _)
MergeAll(merged, frames) ==
    IF frames = << >> THEN merged
    ELSE MergeAll(MergeOuter(merged, Head(frames)), Tail(frames))

\* add_ranks: by descending score from 0, ties in row order
RankOf(rows, i) ==
    Cardinality({ j \in 1..Len(rows) :
                    \/ rows[j].score > rows[i].score
                    \/ rows[j].score = rows[i].score /\ j < i })

\* sort_values('rank') with the rank column added
SortedByRank(rows, qid) ==
    [r \in 1..Len(rows) |->
        LET i == CHOOSE j \in 1..Len(rows) : RankOf(rows, j) = r - 1
        IN  [qid |-> qid, docno |-> rows[i].docno, rank |-> r - 1]]

\* merged_frame[merged_frame['rank'] < num_results]
Cutoff(rows, n) == SelectSeq(rows, LAMBDA row : row.rank < n)

\* the list res after the loop over all_qids: it is appended to only under
\* `if num_results is not None`
RECURSIVE FusedFrames(_, _, _)
FusedFrames(results, qids, num) ==
    IF qids = << >> THEN << >>
    ELSE LET frames == QidFrames(results, Head(qids))
             merged == SortedByRank(MergeAll(Head(frames), Tail(frames)), Head(qids))
         IN  (IF num # << >> THEN << Cutoff(merged, num[1]) >> ELSE << >>)
              \o FusedFrames(results, Tail(qids), num)

RECURSIVE ConcatFrames(_)
ConcatFrames(frames) ==
    IF frames = << >> THEN << >>
    ELSE Head(frames) \o ConcatFrames(Tail(frames))

\* rr_fusion; pd.concat of an empty list raises ValueError
RRFusion(results, num) ==
    LET qids == AllQids(results, {})
        res == IF qids = << >>
               THEN (IF num # << >> THEN << << >> >> ELSE << >>)
               ELSE FusedFrames(results, qids, num)
    IN  IF res = << >> THEN [kind |-> "ValueError", rows |-> << >>]
        ELSE [kind |-> "frame", rows |-> ConcatFrames(res)]

RFInit ==
    /\ ArtifactIdle
    /\ MRIdle
    /\ HRIdle
    /\ SCIdle
    /\ LDIdle
    /\ RSIdle
    /\ BQIdle
    /\ TRIdle
    /\ NYIdle
    /\ BMIdle
    /\ ABIdle
    /\ VAIdle
    /\ CFIdle
    /\ rf_results \in UNION { [1..n -> ResultFrames] : n \in 1..MaxFrames }
    /\ rf_num \in {<< >>} \cup { << n >> : n \in 0..MaxNumResults }
    /\ rf_pc = "start"
    /\ rf_out = [kind |-> "none"]

RFCall ==
    /\ rf_pc = "start"
    /\ rf_out' = RRFusion(rf_results, rf_num)
    /\ rf_pc' = "done"
    /\ UNCHANGED << rfothers, rf_results, rf_num >>

RFNext == RFCall

SpecFusion == RFInit /\ [][RFNext]_vars

\* the (qid, docno) pairs of the input frames
InputPairs ==
    UNION { UNION { { << q, rf_results[f][q][i] >> : i \in 1..Len(rf_results[f][q]) }
                    : q \in DOMAIN rf_results[f] }
            : f \in 1..Len(rf_results) }

OutputPairs == { << rf_out.rows[i].qid, rf_out.rows[i].docno >> : i \in 1..Len(rf_out.rows) }

\* C22: with num_results=None the result holds every (qid, docno) pair of the
\* input frames; with num_results=n it holds, per query, the rows of fused
\* rank below n.
C22_Cutoff ==
    rf_pc = "done" =>
        /\ rf_out.kind = "frame"
        /\ OutputPairs \subseteq InputPairs
        /\ rf_num = << >> => OutputPairs = InputPairs
        /\ rf_num # << >> =>
             /\ \A i \in 1..Len(rf_out.rows) : rf_out.rows[i].rank < rf_num[1]
             /\ \A q \in Qids :
                  LET all == { pr \in InputPairs : pr[1] = q }
                      kept == { pr \in OutputPairs : pr[1] = q }
                  IN  Cardinality(kept) = Min(rf_num[1], Cardinality(all))

\* the part of C22 about a cutoff, which the code meets
C22_CutoffGiven ==
    (rf_pc = "done" /\ rf_num # << >>) => C22_Cutoff

(***************************************************************************)
(* by_query (transform.py): one decorated method, called on instances      *)
(* whose attribute verbose is absent, None, True or False.                 *)
(***************************************************************************)
MaxCalls == 3

VerboseAttrs == {"absent", "None", "True", "False"}

\* hasattr(self, 'verbose') and getattr(self, 'verbose')
InspectVerbose(attr) == IF attr = "absent" THEN "False" ELSE attr

\* the closure variable after `if verbose is None: verbose = ...` of
\* _transform, which declares it nonlocal
VerboseAfter(verbose, attr) ==
    IF verbose = "None" THEN InspectVerbose(attr) ELSE verbose

\* the verbose that _transform passes to pt.apply.by_query
TransformVerbose(verbose, attr) == VerboseAfter(verbose, attr)

\* the verbose that _transform_iter passes to pt.apply.by_query, "default"
\* when it passes none
TransformIterVerbose(verbose, supports, attr) ==
    IF verbose = "True"
    THEN (IF supports THEN "True" ELSE "default")
    ELSE IF verbose = "None" /\ supports /\ InspectVerbose(attr) = "True"
    THEN "True"
    ELSE "default"

\* by_query(verbose=...) applied to a function
BQInit ==
    /\ ArtifactIdle
    /\ MRIdle
    /\ HRIdle
    /\ SCIdle
    /\ LDIdle
    /\ RSIdle
    /\ RFIdle
    /\ TRIdle
    /\ NYIdle
    /\ BMIdle
    /\ ABIdle
    /\ VAIdle
    /\ CFIdle
    /\ bq_fn \in {"transform", "transform_iter"}
    /\ bq_verbose \in {"None", "True", "False"}
    /\ bq_supports \in BOOLEAN
    /\ bq_unspecified = (bq_verbose = "None")
    /\ bq_calls = << >>

\* _transform(self, inp)
BQTransform ==
    /\ bq_fn = "transform"
    /\ Len(bq_calls) < MaxCalls
    /\ \E attr \in VerboseAttrs :
         /\ bq_verbose' = VerboseAfter(bq_verbose, attr)
         /\ bq_calls' = Append(bq_calls,
                [attr |-> attr, passed |-> TransformVerbose(bq_verbose, attr)])
    /\ UNCHANGED << bqothers, bq_fn, bq_supports, bq_unspecified >>

\* _transform_iter(self, inp)
BQTransformIter ==
    /\ bq_fn = "transform_iter"
    /\ Len(bq_calls) < MaxCalls
    /\ \E attr \in VerboseAttrs :
         bq_calls' = Append(bq_calls,
                [attr |-> attr,
                 passed |-> TransformIterVerbose(bq_verbose, bq_supports, attr)])
    /\ UNCHANGED << bqothers, bq_fn, bq_verbose, bq_supports, bq_unspecified >>

BQNext ==
    \/ BQTransform
    \/ BQTransformIter

SpecByQuery == BQInit /\ [][BQNext]_vars

\* C23: with verbose left unspecified, every call of the decorated transform
\* runs verbose exactly when the instance it is made on has a truthy verbose
\* attribute, whatever the earlier calls were made on.
C23_VerbosePerInstance ==
    (bq_fn = "transform" /\ bq_unspecified) =>
        \A i \in 1..Len(bq_calls) :
            (bq_calls[i].passed = "True") <=> (bq_calls[i].attr = "True")

(***************************************************************************)
(* transformer_repr (transformer_repr.py) over the attributes that         *)
(* pt.inspect.transformer_attributes yields for the init parameters.       *)
(***************************************************************************)
MaxParams == 3

ParameterKinds ==
    << "POSITIONAL_ONLY", "POSITIONAL_OR_KEYWORD", "VAR_POSITIONAL",
       "KEYWORD_ONLY", "VAR_KEYWORD" >>

KindRank(kind) == CHOOSE i \in 1..Len(ParameterKinds) : ParameterKinds[i] = kind

\* one attribute: the kind of its init parameter, whether it is the one named
\* verbose, its value and the default of the parameter ("empty" for none)
Attributes ==
    [init_parameter_kind : { ParameterKinds[i] : i \in 1..Len(ParameterKinds) },
     verbose : BOOLEAN,
     value : {"1", "2"},
     init_default_value : {"empty", "1"}]

\* the parameter lists Python accepts: kinds in signature order, one *args
\* and one **kwargs at most, one parameter of a name
Signatures ==
    { a \in UNION { [1..n -> Attributes] : n \in 0..MaxParams } :
        /\ \A i, j \in 1..Len(a) :
              i < j =>
                /\ KindRank(a[i].init_parameter_kind) <= KindRank(a[j].init_parameter_kind)
                /\ a[i].init_parameter_kind = a[j].init_parameter_kind
                     => a[i].init_parameter_kind \notin {"VAR_POSITIONAL", "VAR_KEYWORD"}
                /\ ~(a[i].verbose /\ a[j].verbose) }

\* attr.name of the i-th attribute
ParamNames == << "a", "b", "c", "d", "e" >>
AttrName(attrs, i) == IF attrs[i].verbose THEN "verbose" ELSE ParamNames[i]

\* mode after `mode = 'kwd'` in the else branch of the loop
ModeAfterSkip_Keep(mode) == mode
ModeAfterSkip(mode) == "kwd"

\* the loop of transformer_repr from attribute i on
RECURSIVE ReprArgs(_, _, _)
ReprArgs(attrs, i, mode) ==
    IF i > Len(attrs) THEN << >>
    ELSE LET attr == attrs[i]
             m1 == IF attr.init_parameter_kind
                        \notin {"POSITIONAL_ONLY", "POSITIONAL_OR_KEYWORD"}
                   THEN "kwd" ELSE mode
         IN  IF attr.value # attr.init_default_value /\ AttrName(attrs, i) # "verbose"
             THEN << IF m1 = "kwd"
                     THEN << AttrName(attrs, i), "=", attr.value >>
                     ELSE << attr.value >> >>
                  \o ReprArgs(attrs, i + 1, m1)
             ELSE ReprArgs(attrs, i + 1, ModeAfterSkip(m1))

TransformerRepr(attrs) == ReprArgs(attrs, 1, "pos")

TRInit ==
    /\ ArtifactIdle
    /\ MRIdle
    /\ HRIdle
    /\ SCIdle
    /\ LDIdle
    /\ RSIdle
    /\ RFIdle
    /\ BQIdle
    /\ NYIdle
    /\ BMIdle
    /\ ABIdle
    /\ VAIdle
    /\ CFIdle
    /\ tr_attrs \in Signatures
    /\ tr_pc = "start"
    /\ tr_out = << >>

TRCall ==
    /\ tr_pc = "start"
    /\ tr_out' = TransformerRepr(tr_attrs)
    /\ tr_pc' = "done"
    /\ UNCHANGED << trothers, tr_attrs >>

TRNext == TRCall

SpecRepr == TRInit /\ [][TRNext]_vars

\* the parameters the representation is to list
ListedParams ==
    { i \in 1..Len(tr_attrs) :
        tr_attrs[i].value # tr_attrs[i].init_default_value /\ ~tr_attrs[i].verbose }

\* parameter i is positional-capable and no earlier one was omitted or is
\* keyword-only
RendersBare(i) ==
    /\ tr_attrs[i].init_parameter_kind \in {"POSITIONAL_ONLY", "POSITIONAL_OR_KEYWORD"}
    /\ \A j \in 1..(i - 1) :
          j \in ListedParams /\ tr_attrs[j].init_parameter_kind # "KEYWORD_ONLY"

\* C24: the arguments rendered are, in declaration order, those of the init
\* parameters whose value differs from the default and that are not named
\* verbose; one is rendered as its bare value exactly when it is
\* positional-capable and no earlier parameter was omitted or keyword-only,
\* and as name=value otherwise.
C24_Repr ==
    tr_pc = "done" =>
        /\ Len(tr_out) = Cardinality(ListedParams)
        /\ \A i \in ListedParams :
              LET k == Cardinality({ j \in ListedParams : j <= i })
              IN  tr_out[k] = IF RendersBare(i)
                              THEN << tr_attrs[i].value >>
                              ELSE << ParamNames[i], "=", tr_attrs[i].value >>

\* an argument was rendered as name=value although its parameter is
\* positional-capable, because an earlier parameter was left out
C24_Witness ==
    /\ tr_pc = "done"
    /\ Len(tr_attrs) = 3
    /\ \A i \in 1..3 : tr_attrs[i].init_parameter_kind = "POSITIONAL_OR_KEYWORD"
    /\ ListedParams = {1, 3}
    /\ tr_out = << << tr_attrs[1].value >>, << "c", "=", tr_attrs[3].value >> >>


(***************************************************************************)
(* The observing streams of io.py on their own: HashReader, TqdmReader and *)
(* CallbackReader over a file, and HashWriter over writers that may fail   *)
(* and be replaced.                                                        *)
(***************************************************************************)
\* the calls of one run
MaxNosyCalls == 3

\* the underlying writers of one HashWriter
MaxWriters == 2

\* the size _NosyReader.read and read1 pass to the wrapped stream
Requested(size) ==
    Min(IF size = -1 THEN DEFAULT_CHUNK_SIZE ELSE size, DEFAULT_CHUNK_SIZE)

\* read(n) of a file: n bytes, fewer at the end of the file only
FileRead(data, pos, n) == Take(data, pos, Min(n, Len(data) - pos))

\* read1(n) of a file: at least one byte and at most n while bytes are left
FileRead1(data, pos, n) ==
    IF Min(n, Len(data) - pos) = 0 THEN { << >> }
    ELSE { Take(data, pos, k) : k \in 1..Min(n, Len(data) - pos) }

\* `self.on_data(chunk)`: the calls of the observer for one chunk
OnData_NonEmpty(chunk) == IF chunk = << >> THEN << >> ELSE << chunk >>
OnData(chunk) == << chunk >>

\* the data a caller writes in one call
WriteData == { << >>, << "x" >>, << "y", "z" >> }

NYInit ==
    /\ ArtifactIdle
    /\ MRIdle
    /\ HRIdle
    /\ SCIdle
    /\ LDIdle
    /\ RSIdle
    /\ RFIdle
    /\ BQIdle
    /\ TRIdle
    /\ BMIdle
    /\ ABIdle
    /\ VAIdle
    /\ CFIdle
    /\ ny_kind \in {"hash", "tqdm", "callback", "writer"}
    /\ \E len \in 0..MaxSubLen :
         ny_data = IF ny_kind = "writer" THEN << >> ELSE SubStream(1, len)
    /\ ny_pos = 0
    /\ ny_calls = << >>
    /\ ny_seen = << >>
    /\ ny_hash = << >>
    /\ ny_total = 0
    /\ ny_writers = IF ny_kind = "writer" THEN << << >> >> ELSE << >>
    /\ ny_ok = << >>

\* the observers: HashReader and HashWriter update the hash, TqdmReader
\* updates the progress bar, CallbackReader calls the callback
Observed(chunks) ==
    /\ ny_seen' = ny_seen \o chunks
    /\ ny_hash' = IF ny_kind \in {"hash", "writer"}
                  THEN HashUpdate(ny_hash, Concat(chunks)) ELSE ny_hash
    /\ ny_total' = IF ny_kind = "tqdm"
                   THEN ny_total + Len(Concat(chunks)) ELSE ny_total

\* _NosyReader.read(size)
NYRead ==
    /\ ny_kind \in {"hash", "tqdm", "callback"}
    /\ Len(ny_calls) < MaxNosyCalls
    /\ \E size \in ReadSizes :
         LET chunk == FileRead(ny_data, ny_pos, Requested(size))
         IN  /\ ny_pos' = ny_pos + Len(chunk)
             /\ Observed(OnData(chunk))
             /\ ny_calls' = Append(ny_calls,
                    [method |-> "read", size |-> size, asked |-> Requested(size),
                     chunk |-> chunk])
    /\ UNCHANGED << nyothers, ny_kind, ny_data, ny_writers, ny_ok >>

\* _NosyReader.read1(size)
NYRead1 ==
    /\ ny_kind \in {"hash", "tqdm", "callback"}
    /\ Len(ny_calls) < MaxNosyCalls
    /\ \E size \in ReadSizes :
         \E chunk \in FileRead1(ny_data, ny_pos, Requested(size)) :
             /\ ny_pos' = ny_pos + Len(chunk)
             /\ Observed(OnData(chunk))
             /\ ny_calls' = Append(ny_calls,
                    [method |-> "read1", size |-> size, asked |-> Requested(size),
                     chunk |-> chunk])
    /\ UNCHANGED << nyothers, ny_kind, ny_data, ny_writers, ny_ok >>

\* _NosyWriter.write(data): self.writer.write(data) returns, then on_data
NYWrite ==
    /\ ny_kind = "writer"
    /\ Len(ny_calls) < MaxNosyCalls
    /\ \E data \in WriteData :
         /\ ny_writers' = [ny_writers EXCEPT ![Len(ny_writers)] = @ \o data]
         /\ Observed(OnData(data))
         /\ ny_ok' = ny_ok \o data
         /\ ny_calls' = Append(ny_calls,
                [method |-> "write", size |-> Len(data), asked |-> Len(data),
                 chunk |-> data])
    /\ UNCHANGED << nyothers, ny_kind, ny_data, ny_pos >>

\* _NosyWriter.write(data) when self.writer.write(data) raises: the writer
\* may have received some of the bytes, on_data is not reached
NYWriteFails ==
    /\ ny_kind = "writer"
    /\ Len(ny_calls) < MaxNosyCalls
    /\ \E data \in WriteData : \E k \in 0..Len(data) :
         /\ ny_writers' = [ny_writers EXCEPT
                             ![Len(ny_writers)] = @ \o Take(data, 0, k)]
         /\ ny_calls' = Append(ny_calls,
                [method |-> "raised", size |-> Len(data), asked |-> Len(data),
                 chunk |-> << >>])
    /\ UNCHANGED << nyothers, ny_kind, ny_data, ny_pos, ny_seen, ny_hash,
                    ny_total, ny_ok >>

\* _NosyWriter.replace_writer(writer)
NYReplaceWriter ==
    /\ ny_kind = "writer"
    /\ Len(ny_writers) < MaxWriters
    /\ ny_writers' = Append(ny_writers, << >>)
    /\ ny_hash' = HashAfterReplace(ny_hash)
    /\ UNCHANGED << nyothers, ny_kind, ny_data, ny_pos, ny_calls, ny_seen,
                    ny_total, ny_ok >>

NYNext == NYRead \/ NYRead1 \/ NYWrite \/ NYWriteFails \/ NYReplaceWriter

SpecNosy == NYInit /\ [][NYNext]_vars

\* the chunks the first n calls returned, concatenated
RECURSIVE Returned(_)
Returned(n) ==
    IF n = 0 THEN << >> ELSE Returned(n - 1) \o ny_calls[n].chunk

\* C32: at any time the digest of a HashReader is the SHA-256 of the chunks
\* its read and read1 calls returned, concatenated, and the digest of a
\* HashWriter is the SHA-256 of the chunks whose write returned, concatenated,
\* whichever underlying writer received them.
C32_RunningDigest ==
    /\ ny_kind = "hash" =>
         HexDigest(ny_hash) = HexDigest(Returned(Len(ny_calls)))
    /\ ny_kind = "writer" =>
         /\ HexDigest(ny_hash) = HexDigest(ny_ok)
         /\ ny_ok = Returned(Len(ny_calls))

\* a HashWriter whose writer was replaced between two writes, after a write
\* that failed half way
C32_Witness ==
    /\ ny_kind = "writer"
    /\ Len(ny_writers) = 2
    /\ ny_writers[1] = << "y" >>
    /\ ny_writers[2] = << "x" >>
    /\ ny_hash = << "x" >>

\* C33: every read(size) and read1(size) of an observing reader asks the
\* wrapped stream for min(size, DEFAULT_CHUNK_SIZE) bytes (the default for
\* -1) and returns the chunk it gets; the observer is called once per call
\* with that chunk, the empty one at the end of the stream too; the progress
\* bar counts the bytes returned.
C33_ObserversAreTransparent ==
    ny_kind \in {"hash", "tqdm", "callback"} =>
        /\ \A k \in 1..Len(ny_calls) :
             LET c == ny_calls[k]
                 before == Len(Returned(k - 1))
                 want == IF c.size = -1 \/ c.size > DEFAULT_CHUNK_SIZE
                         THEN DEFAULT_CHUNK_SIZE ELSE c.size
             IN  /\ c.asked = want
                 /\ c.chunk = Take(ny_data, before, Len(c.chunk))
                 /\ c.method = "read" =>
                      Len(c.chunk) = Min(want, Len(ny_data) - before)
                 /\ c.method = "read1" =>
                      /\ Len(c.chunk) <= want
                      /\ (c.chunk = << >>) <=> (before = Len(ny_data))
        /\ ny_seen = [k \in 1..Len(ny_calls) |-> ny_calls[k].chunk]
        /\ ny_kind = "tqdm" => ny_total = Len(Returned(Len(ny_calls)))

\* a progress reader that was read past the end of its stream, once with a
\* size above the default chunk size
C33_Witness ==
    /\ ny_kind = "tqdm"
    /\ Len(ny_calls) = 3
    /\ ny_calls[1].size > DEFAULT_CHUNK_SIZE
    /\ ny_calls[3].chunk = << >>
    /\ ny_total = Len(ny_data)
    /\ ny_total > 0
    /\ Len(ny_seen) = 3


(***************************************************************************)
(* The synthesized pt_meta.json (artifact.py, inspect.py): the type and    *)
(* format of the artifact's class, and the package hint.                   *)
(***************************************************************************)
\* the entry points of one registry
MaxEntryPoints == 2

Modules == {"m", "n"}

\* a class: ARTIFACT_TYPE and ARTIFACT_FORMAT (<< >> when it has none),
\* ARTIFACT_PACKAGE_HINT (<< >> when it has none), its top-level module
ArtifactClasses ==
    [consts : { << >>, << "a", "b" >> }, hint : { << >>, << "pkg" >> },
     module : Modules]

\* an entry point: its name 'type.format', split at the first dot, the
\* top-level module of its value, and whether it loads the artifact's class
EntryPoints ==
    [type : {"a", "b"}, format : {"b"}, module : Modules, loads_cls : BOOLEAN]

\* the entry points artifact_type_format looks at and the first that matches
SameModule(cls, registry) ==
    { i \in 1..Len(registry) :
        registry[i].module = cls.module /\ registry[i].loads_cls }

\* artifact_type_format(artifact): << type, format >>, or InspectError
ArtifactTypeFormat(cls, registry) ==
    IF cls.consts # << >> THEN [raised |-> "", value |-> cls.consts]
    ELSE IF SameModule(cls, registry) # {}
    THEN LET i == CHOOSE i \in SameModule(cls, registry) :
                    \A j \in SameModule(cls, registry) : i <= j
         IN  [raised |-> "", value |-> << registry[i].type, registry[i].format >>]
    ELSE [raised |-> "InspectError", value |-> << >>]

\* a call of artifact_type_format with the positional arguments given: the
\* parameter `artifact` has no default
CallArtifactTypeFormat(positional, registry) ==
    IF positional = << >> THEN [raised |-> "TypeError", value |-> << >>]
    ELSE ArtifactTypeFormat(positional[1], registry)

\* Artifact._build_metadata
BuildMetadataOf(cls, registry) ==
    LET tf == CallArtifactTypeFormat(<< >>, registry)
        hint == IF cls.hint # << >> THEN cls.hint[1] ELSE cls.module
    IN  IF tf.raised = ""
        THEN [k \in {"type", "format", "package_hint"} |->
                IF k = "type" THEN tf.value[1]
                ELSE IF k = "format" THEN tf.value[2] ELSE hint]
        ELSE [k \in {"package_hint"} |-> hint]

BMInit ==
    /\ ArtifactIdle
    /\ MRIdle
    /\ HRIdle
    /\ SCIdle
    /\ LDIdle
    /\ RSIdle
    /\ RFIdle
    /\ BQIdle
    /\ TRIdle
    /\ NYIdle
    /\ ABIdle
    /\ VAIdle
    /\ CFIdle
    /\ bm_class \in ArtifactClasses
    /\ bm_registry \in SubSeqsUpTo(EntryPoints, MaxEntryPoints)
    /\ bm_has_meta \in BOOLEAN
    /\ bm_pc = "start"
    /\ bm_out = << >>

\* the end of _package_files
BMPackageFiles ==
    /\ bm_pc = "start"
    /\ bm_out' = IF bm_has_meta THEN << >>
                 ELSE << BuildMetadataOf(bm_class, bm_registry) >>
    /\ bm_pc' = "done"
    /\ UNCHANGED << bmothers, bm_class, bm_registry, bm_has_meta >>

BMNext == BMPackageFiles

SpecMeta == BMInit /\ [][BMNext]_vars

\* the class has ARTIFACT_TYPE and ARTIFACT_FORMAT, or an entry point of its
\* top-level module loads it
ProvidesTypeFormat ==
    \/ bm_class.consts # << >>
    \/ \E i \in 1..Len(bm_registry) :
         bm_registry[i].module = bm_class.module /\ bm_registry[i].loads_cls

\* C35: when the directory has no pt_meta.json and the class of the artifact
\* provides a type and a format, by its constants or by its entry point, the
\* synthesized pt_meta.json holds type, format and package_hint.
C35_SelfDescribing ==
    (bm_pc = "done" /\ ~bm_has_meta /\ ProvidesTypeFormat) =>
        /\ bm_out # << >>
        /\ DOMAIN bm_out[1] = {"type", "format", "package_hint"}
        /\ bm_class.consts # << >> =>
             << bm_out[1]["type"], bm_out[1]["format"] >> = bm_class.consts


(***************************************************************************)
(* ArtifactBuilder (artifact.py): the with block that creates an artifact  *)
(* directory and, on leaving, writes its pt_meta.json.                     *)
(***************************************************************************)
\* the files the body of the block may write
BodyFiles == {"data", "index", "lexicon", "log"}

\* what may be at the path before: a missing path (its parent there or
\* not), a file, a directory
PriorPaths ==
    { [dir |-> "missing", parent |-> FALSE], [dir |-> "missing", parent |-> TRUE],
      [dir |-> "file", parent |-> TRUE], [dir |-> "dir", parent |-> TRUE] }

\* the exception __enter__ raises, "" when it creates the directory
EnterRaises(mode, dir) ==
    IF mode = "create"
    THEN IF dir # "missing" THEN "FileExistsError" ELSE ""
    ELSE IF mode = "overwrite"
    THEN IF dir # "missing" THEN "NotImplementedError" ELSE ""
    ELSE "NotImplementedError"

ABInit ==
    /\ ArtifactIdle
    /\ MRIdle
    /\ HRIdle
    /\ SCIdle
    /\ LDIdle
    /\ RSIdle
    /\ RFIdle
    /\ BQIdle
    /\ TRIdle
    /\ NYIdle
    /\ BMIdle
    /\ VAIdle
    /\ CFIdle
    /\ ab_mode \in {"create", "overwrite", "append"}
    /\ ab_prior \in PriorPaths
    /\ ab_parent = ab_prior.parent
    /\ ab_dir = ab_prior.dir
    /\ ab_files = {}
    /\ ab_meta = "none"
    /\ ab_pc = "start"
    /\ ab_exc = ""

\* __enter__: self.path.mkdir(parents=True), or the exception of the mode
ABEnter ==
    /\ ab_pc = "start"
    /\ IF EnterRaises(ab_mode, ab_dir) # ""
       THEN /\ ab_pc' = "raised"
            /\ ab_exc' = EnterRaises(ab_mode, ab_dir)
            /\ UNCHANGED << ab_parent, ab_dir >>
       ELSE /\ ab_pc' = "body"
            /\ ab_parent' = TRUE
            /\ ab_dir' = "dir"
            /\ UNCHANGED ab_exc
    /\ UNCHANGED << abothers, ab_mode, ab_prior, ab_files, ab_meta >>

\* the body writes a file of the artifact
ABBodyWrite ==
    /\ ab_pc = "body"
    /\ \E f \in BodyFiles \ ab_files : ab_files' = ab_files \cup {f}
    /\ UNCHANGED << abothers, ab_mode, ab_prior, ab_parent, ab_dir, ab_meta,
                    ab_pc, ab_exc >>

\* the body raises: __exit__ with exc_type, `pass`
ABBodyRaise ==
    /\ ab_pc = "body"
    /\ ab_pc' = "raised"
    /\ ab_exc' = "body"
    /\ UNCHANGED << abothers, ab_mode, ab_prior, ab_parent, ab_dir, ab_files,
                    ab_meta >>

\* the body returns: __exit__ without exception
ABBodyReturn ==
    /\ ab_pc = "body"
    /\ ab_pc' = "exit"
    /\ UNCHANGED << abothers, ab_mode, ab_prior, ab_parent, ab_dir, ab_files,
                    ab_meta, ab_exc >>

\* open(meta_path, 'wt') fails: no file, the exception is raised again
ABOpenFails ==
    /\ ab_pc = "exit"
    /\ ab_pc' = "raised"
    /\ ab_exc' = "open"
    /\ UNCHANGED << abothers, ab_mode, ab_prior, ab_parent, ab_dir, ab_files,
                    ab_meta >>

\* open(meta_path, 'wt'): the file is there, nothing of it written yet
ABOpen ==
    /\ ab_pc = "exit"
    /\ ab_meta' = "partial"
    /\ ab_pc' = "writing"
    /\ UNCHANGED << abothers, ab_mode, ab_prior, ab_parent, ab_dir, ab_files,
                    ab_exc >>

\* json.dump and the close of the file
ABDump ==
    /\ ab_pc = "writing"
    /\ ab_meta' = "complete"
    /\ ab_pc' = "done"
    /\ UNCHANGED << abothers, ab_mode, ab_prior, ab_parent, ab_dir, ab_files,
                    ab_exc >>

\* json.dump raises: meta_path.unlink(), the exception is raised again
ABDumpFails ==
    /\ ab_pc = "writing"
    /\ ab_meta' = "none"
    /\ ab_pc' = "raised"
    /\ ab_exc' = "dump"
    /\ UNCHANGED << abothers, ab_mode, ab_prior, ab_parent, ab_dir, ab_files >>

ABNext ==
    \/ ABEnter
    \/ ABBodyWrite
    \/ ABBodyRaise
    \/ ABBodyReturn
    \/ ABOpenFails
    \/ ABOpen
    \/ ABDump
    \/ ABDumpFails

SpecBuilder == ABInit /\ [][ABNext]_vars

\* C36: when the block is left by an exception (of __enter__, of the body, of
\* the write of the metadata) the path and its parent are as they were before
\* and hold no pt_meta.json; a complete pt_meta.json is there only when the
\* block was left without exception.
C36_PriorStateOnFailure ==
    /\ ab_pc = "raised" =>
         /\ ab_dir = ab_prior.dir
         /\ ab_parent = ab_prior.parent
         /\ ab_files = {}
         /\ ab_meta = "none"
    /\ ab_meta = "complete" => ab_pc = "done"


(***************************************************************************)
(* validate.any (validate.py): the context manager that collects the modes *)
(* tried in its block and raises when all of them failed.                  *)
(***************************************************************************)
\* the calls of columns() in one block
MaxAttempts == 2

FrameColumns == {"qid", "docno"}

\* the lists given as includes
IncludeLists ==
    { << >>, << "qid" >>, << "docno" >>, << "qid", "docno" >>,
      << "docno", "qid" >> }

\* the lists given as excludes
ExcludeLists == { << >>, << "docno" >>, << "docno", "qid" >> }

\* the mode argument: << >> for None
ModeNames == { << >>, << "a" >>, << "b" >> }

\* [c for c in columns if c in chosen]
RECURSIVE Filter(_, _)
Filter(columns, chosen) ==
    IF columns = << >> THEN << >>
    ELSE (IF Head(columns) \in chosen THEN << Head(columns) >> ELSE << >>)
           \o Filter(Tail(columns), chosen)

\* set(includes) - set(self.inp.columns)
MissingColumns(includes, cols) ==
    { includes[i] : i \in 1..Len(includes) } \ cols

\* set(excludes) & set(self.inp.columns)
ExtraColumns(excludes, cols) ==
    { excludes[i] : i \in 1..Len(excludes) } \cap cols

\* _TransformerMode
TransformerMode(missing, extra, mode) ==
    [missing_columns |-> missing, extra_columns |-> extra, mode_name |-> mode]

\* the test of __exit__
AllFailed_Some(attempts, errors) == Len(errors) > 0
AllFailed(attempts, errors) == attempts > 0 /\ attempts = Len(errors)

VAInit ==
    /\ ArtifactIdle
    /\ MRIdle
    /\ HRIdle
    /\ SCIdle
    /\ LDIdle
    /\ RSIdle
    /\ RFIdle
    /\ BQIdle
    /\ TRIdle
    /\ NYIdle
    /\ BMIdle
    /\ ABIdle
    /\ CFIdle
    /\ va_cols \in SUBSET FrameColumns
    /\ va_log = << >>
    /\ va_attempts = 0
    /\ va_errors = << >>
    /\ va_mode = << >>
    /\ va_body = FALSE
    /\ va_pc = "body"
    /\ va_exc = ""

\* _ValidationContextManager.columns(includes=, excludes=, mode=)
VAColumns ==
    /\ va_pc = "body"
    /\ va_attempts < MaxAttempts
    /\ \E includes \in IncludeLists, excludes \in ExcludeLists, mode \in ModeNames :
         LET missing == MissingColumns(includes, va_cols)
             extra == ExtraColumns(excludes, va_cols)
         IN  /\ va_log' = Append(va_log, [includes |-> includes,
                                          excludes |-> excludes, mode |-> mode])
             /\ va_attempts' = va_attempts + 1
             /\ IF missing # {} \/ extra # {}
                THEN /\ va_errors' = Append(va_errors,
                            TransformerMode(Filter(includes, missing),
                                            Filter(excludes, extra), mode))
                     /\ UNCHANGED va_mode
                ELSE /\ va_mode' = IF va_mode = << >> /\ mode # << >>
                                   THEN mode ELSE va_mode
                     /\ UNCHANGED va_errors
    /\ UNCHANGED << vaothers, va_cols, va_body, va_pc, va_exc >>

\* the body raises
VABodyRaise ==
    /\ va_pc = "body"
    /\ va_body' = TRUE
    /\ va_pc' = "exit"
    /\ UNCHANGED << vaothers, va_cols, va_log, va_attempts, va_errors, va_mode,
                    va_exc >>

\* the body returns
VABodyReturn ==
    /\ va_pc = "body"
    /\ va_pc' = "exit"
    /\ UNCHANGED << vaothers, va_cols, va_log, va_attempts, va_errors, va_mode,
                    va_body, va_exc >>

\* __exit__
VAExit ==
    /\ va_pc = "exit"
    /\ va_pc' = "left"
    /\ va_exc' = IF va_body THEN "body"
                 ELSE IF AllFailed(va_attempts, va_errors)
                 THEN "InputValidationError" ELSE ""
    /\ UNCHANGED << vaothers, va_cols, va_log, va_attempts, va_errors, va_mode,
                    va_body >>

VANext == VAColumns \/ VABodyRaise \/ VABodyReturn \/ VAExit

SpecValidate == VAInit /\ [][VANext]_vars

\* whether call k of the block found a required column missing or a
\* forbidden one present
ModeFailed(k) ==
    \/ \E i \in 1..Len(va_log[k].includes) : va_log[k].includes[i] \notin va_cols
    \/ \E i \in 1..Len(va_log[k].excludes) : va_log[k].excludes[i] \in va_cols

\* the calls that failed, in the order they were made
RECURSIVE FailedUpTo(_)
FailedUpTo(k) ==
    IF k = 0 THEN << >>
    ELSE FailedUpTo(k - 1) \o (IF ModeFailed(k) THEN << k >> ELSE << >>)

\* the columns of a list, in its order, that are (absent = FALSE) or are not
\* (absent = TRUE) columns of the frame
RECURSIVE ColumnsWhere(_, _)
ColumnsWhere(list, absent) ==
    IF list = << >> THEN << >>
    ELSE (IF (Head(list) \notin va_cols) = absent THEN << Head(list) >> ELSE << >>)
           \o ColumnsWhere(Tail(list), absent)

\* C37: a block whose body did not raise is left by InputValidationError
\* exactly when at least one mode was tried and every mode tried failed; the
\* error lists the failed modes in the order tried, each with its missing and
\* its forbidden-but-present columns in the order given.  When the body raised,
\* its exception leaves the block.  mode is the name of the first named mode
\* that passed.
C37_ValidationContext ==
    LET failed == FailedUpTo(Len(va_log))
        passed == { k \in 1..Len(va_log) : ~ModeFailed(k) /\ va_log[k].mode # << >> }
    IN  /\ va_pc = "left" =>
             /\ va_body => va_exc = "body"
             /\ ~va_body =>
                  /\ va_exc \in {"", "InputValidationError"}
                  /\ va_exc = "InputValidationError" <=>
                       (Len(va_log) > 0 /\ Len(failed) = Len(va_log))
        /\ Len(va_errors) = Len(failed)
        /\ \A j \in 1..Len(failed) :
             /\ va_errors[j].mode_name = va_log[failed[j]].mode
             /\ va_errors[j].missing_columns =
                  ColumnsWhere(va_log[failed[j]].includes, TRUE)
             /\ va_errors[j].extra_columns =
                  ColumnsWhere(va_log[failed[j]].excludes, FALSE)
        /\ va_mode = (IF passed = {} THEN << >>
                      ELSE va_log[CHOOSE k \in passed : \A l \in passed : k <= l].mode)

\* two modes were tried and both failed, the first for a missing column and
\* the second for a forbidden one, and the block was left by
\* InputValidationError
C37_Witness ==
    /\ va_pc = "left"
    /\ va_exc = "InputValidationError"
    /\ Len(va_errors) = 2
    /\ va_errors[1].missing_columns = << "docno" >>
    /\ va_errors[2].extra_columns = << "qid" >>
    /\ va_errors[1].mode_name # va_errors[2].mode_name


(***************************************************************************)
(* Two calls of from_url for one locator that run at the same time         *)
(* (artifact.py, io.py).  Each call has its own temporary directory and    *)
(* its own temporary sidecar file (mkdtemp and mkstemp give fresh names);  *)
(* the cache path and the sidecar path are shared.                         *)
(***************************************************************************)
\* the members of the package
MaxFiles == 2

Callers == {1, 2}

\* os.replace(path_tmp, path) of a directory raises when the target is a
\* directory that is not empty
ReplaceDirRaises_Never(target) == FALSE
ReplaceDirRaises(target) == target # << >> /\ target[1].files # {}

CFInit ==
    /\ ArtifactIdle
    /\ MRIdle
    /\ HRIdle
    /\ SCIdle
    /\ LDIdle
    /\ RSIdle
    /\ RFIdle
    /\ BQIdle
    /\ TRIdle
    /\ NYIdle
    /\ BMIdle
    /\ ABIdle
    /\ VAIdle
    /\ cf_n \in 0..MaxFiles
    /\ cf_pc = [p \in Callers |-> "idle"]
    /\ cf_tmp = [p \in Callers |-> << >>]
    /\ cf_side_tmp = [p \in Callers |-> FALSE]
    /\ cf_cache = << >>
    /\ cf_sidecar = << >>
    /\ cf_exc = [p \in Callers |-> ""]
    /\ cf_log = << >>

\* `if not os.path.exists(path)`
CFStart(p) ==
    /\ cf_pc[p] = "idle"
    /\ cf_pc' = [cf_pc EXCEPT ![p] = IF cf_cache # << >> THEN "load" ELSE "enter"]
    /\ UNCHANGED << cfothers, cf_n, cf_tmp, cf_side_tmp, cf_cache, cf_sidecar,
                    cf_exc, cf_log >>

\* finalized_directory(path) and finalized_open(path + '.json') are entered
CFEnter(p) ==
    /\ cf_pc[p] = "enter"
    /\ cf_tmp' = [cf_tmp EXCEPT ![p] = << {} >>]
    /\ cf_side_tmp' = [cf_side_tmp EXCEPT ![p] = TRUE]
    /\ cf_pc' = [cf_pc EXCEPT ![p] = "extract"]
    /\ UNCHANGED << cfothers, cf_n, cf_cache, cf_sidecar, cf_exc, cf_log >>

\* one member is extracted into the temporary directory of the call
CFExtract(p) ==
    /\ cf_pc[p] = "extract"
    /\ Cardinality(cf_tmp[p][1]) < cf_n
    /\ cf_tmp' = [cf_tmp EXCEPT
                    ![p] = << cf_tmp[p][1] \cup {Cardinality(cf_tmp[p][1]) + 1} >>]
    /\ UNCHANGED << cfothers, cf_n, cf_pc, cf_side_tmp, cf_cache, cf_sidecar,
                    cf_exc, cf_log >>

\* the stream is exhausted and its digest is right: the with block is left
CFClose(p) ==
    /\ cf_pc[p] = "extract"
    /\ Cardinality(cf_tmp[p][1]) = cf_n
    /\ cf_pc' = [cf_pc EXCEPT ![p] = "commit_side"]
    /\ UNCHANGED << cfothers, cf_n, cf_tmp, cf_side_tmp, cf_cache, cf_sidecar,
                    cf_exc, cf_log >>

\* an error inside the with block: both scopes remove their temporaries
CFFail(p) ==
    /\ cf_pc[p] = "extract"
    /\ cf_tmp' = [cf_tmp EXCEPT ![p] = << >>]
    /\ cf_side_tmp' = [cf_side_tmp EXCEPT ![p] = FALSE]
    /\ cf_pc' = [cf_pc EXCEPT ![p] = "raised"]
    /\ cf_exc' = [cf_exc EXCEPT ![p] = "body"]
    /\ UNCHANGED << cfothers, cf_n, cf_cache, cf_sidecar, cf_log >>

\* the exit of the sidecar's scope: os.replace onto path + '.json'
CFCommitSidecar(p) ==
    /\ cf_pc[p] = "commit_side"
    /\ cf_side_tmp' = [cf_side_tmp EXCEPT ![p] = FALSE]
    /\ cf_sidecar' = << p >>
    /\ cf_pc' = [cf_pc EXCEPT ![p] = "commit_dir"]
    /\ UNCHANGED << cfothers, cf_n, cf_tmp, cf_cache, cf_exc, cf_log >>

\* the exit of the directory's scope: os.replace(path_tmp, path)
CFCommitDir(p) ==
    /\ cf_pc[p] = "commit_dir"
    /\ IF ReplaceDirRaises(cf_cache)
       THEN /\ cf_pc' = [cf_pc EXCEPT ![p] = "raised"]
            /\ cf_exc' = [cf_exc EXCEPT ![p] = "ENOTEMPTY"]
            /\ UNCHANGED << cf_tmp, cf_cache, cf_log >>
       ELSE /\ cf_cache' = << [owner |-> p, files |-> cf_tmp[p][1]] >>
            /\ cf_tmp' = [cf_tmp EXCEPT ![p] = << >>]
            /\ cf_log' = Append(cf_log, cf_cache)
            /\ cf_pc' = [cf_pc EXCEPT ![p] = "load"]
            /\ UNCHANGED cf_exc
    /\ UNCHANGED << cfothers, cf_n, cf_side_tmp, cf_sidecar >>

\* cls.load(path)
CFLoad(p) ==
    /\ cf_pc[p] = "load"
    /\ cf_pc' = [cf_pc EXCEPT ![p] = "returned"]
    /\ UNCHANGED << cfothers, cf_n, cf_tmp, cf_side_tmp, cf_cache, cf_sidecar,
                    cf_exc, cf_log >>

CFStep(p) ==
    \/ CFStart(p)
    \/ CFEnter(p)
    \/ CFExtract(p)
    \/ CFClose(p)
    \/ CFFail(p)
    \/ CFCommitSidecar(p)
    \/ CFCommitDir(p)
    \/ CFLoad(p)

CFNext == \E p \in Callers : CFStep(p)

SpecConcurrent == CFInit /\ [][CFNext]_vars

\* C40: under every interleaving of two calls, the cache path, whenever it
\* exists, holds all the members of the package, extracted by one call, and
\* no rename ever went onto a cache directory that held something.
C40_ConcurrentFetches ==
    /\ cf_cache # << >> =>
         /\ cf_cache[1].files = 1..cf_n
         /\ cf_cache[1].owner \in Callers
    /\ \A k \in 1..Len(cf_log) :
         cf_log[k] = << >> \/ cf_log[k][1].files = {}

\* both calls extracted the package at the same time; one committed its
\* directory, the other found the cache path taken and raised
C40_Witness ==
    /\ cf_n = 2
    /\ cf_cache # << >>
    /\ cf_cache[1].owner = 2
    /\ cf_pc[2] = "returned"
    /\ cf_pc[1] = "raised"
    /\ cf_exc[1] = "ENOTEMPTY"
    /\ cf_tmp[1] = << {1, 2} >>

=============================================================================
